---------------------------- MODULE Spec2Model ----------------------------
(***************************************************************************)
(* Model of the report extraction and normalisation engine of              *)
(* cionny/srilanka_floods: the value normalisers, the name canonicalisers, *)
(* the water-level token-stream parser, the situation-report table parser  *)
(* and the landslide table parser with its cross-page merge.               *)
(*                                                                         *)
(* A Python string is a sequence of one-character strings, so that the     *)
(* conversions (strip, replace, int(), float(), split) are computed the    *)
(* way the code computes them.  A Python value is a tagged record:         *)
(* PyNone, PyNaN (pandas' missing cell), PyStr(s), PyInt(n), PyFloat(m,e)  *)
(* (the decimal m * 10^-e), PyFloatNaN, PyFloatInf(sign), PyExc(type).     *)
(***************************************************************************)
EXTENDS Integers, Sequences, FiniteSets, TLC

VARIABLES
    fam,            \* which report family this run processes
    value,          \* value normaliser: the input token (a Python value)
    fn,             \* value normaliser: the function applied last
    result,         \* value normaliser: what it returned
    again,          \* value normaliser: the function applied to its own result
    text,           \* water level: the decoded text of the bulletin
    lines,          \* water level: its stripped non-blank lines
    i,              \* water level: the scan cursor (0-based, as in the code)
    stations,       \* water level: the readings emitted so far
    current_basin,  \* water level: the basin context
    pc,             \* water level: begin, loop or done
    origin,         \* history: the tributary line index of each reading
    scan,           \* history: the loop iterations run and the lines they read
    expected,       \* history: the station blocks the text was built from
    df,             \* situation report: the DataFrame given to the parser
    idx,            \* situation report: the index of the next row of df
    districts,      \* situation report: the district records built so far
    spc,            \* situation report: rows or done
    tables,         \* landslide: the tables of the document, one per page
    tbl,            \* landslide: the table being parsed (from 1)
    ridx,           \* landslide: the index of the next row of that table
    layout,         \* landslide: the columns found in that table
    all_warnings,   \* landslide: the records parsed from all tables
    warnings_list,  \* landslide: the records given to the merge
    district_map,   \* landslide: the merged records, in insertion order
    widx,           \* landslide: the number of records merged so far
    first,          \* landslide: what the merge of all_warnings returned
    how,            \* landslide: none, or how the records were given again
    lpc,            \* landslide: table, rows, merge, merged or remerged
    report,         \* what the family's extract function returned or raised
    catalog,        \* the boundary catalog: the properties of its features
    geojson,        \* what convert_to_geojson returned
    mtext,          \* metadata: the decoded text of a document
    mfn,            \* metadata: the family whose extractor was applied
    metadata,       \* metadata: the date fields of what it returned
    reports,        \* refresh: the listing of the site, the latest first
    rpc,            \* refresh: the step fetch_and_extract_data is at
    latest_data,    \* refresh: the latest report extracted in this run
    previous_data,  \* refresh: the previous report extracted in this run
    fetched,        \* refresh: what fetch_and_extract_data returned or raised
    session,        \* refresh: the reports held by the session
    files,          \* refresh: the saved reports, by file name
    now,            \* refresh: the clock, in minutes
    runs,           \* refresh: the number of refreshes begun
    rlog,           \* history: the downloads and extractions of this run
    shown,          \* refresh: the message the handler showed
    atPress,         \* history: the session and the files when Refresh was pressed
    given,          \* merge: the records given, as values, at the call
    heap,           \* merge: the objects, by index
    arg,            \* merge: warnings_list, the dicts of the caller
    dmap,           \* merge: district_map, in insertion order
    argi,           \* merge: the number of records taken
    merged,         \* merge: the list returned
    hpc             \* merge: the step merge_district_warnings is at

valueVars == <<value, fn, result, again>>
waterVars ==
    <<text, lines, i, stations, current_basin, pc, origin, scan, expected>>
sitrepVars == <<df, idx, districts, spc>>
landslideVars ==
    <<tables, tbl, ridx, layout, all_warnings, warnings_list, district_map,
      widx, first, how, lpc>>
joinVars == <<catalog, geojson>>
metadataVars == <<mtext, mfn, metadata>>
refreshVars ==
    <<reports, rpc, latest_data, previous_data, fetched, session, files, now,
      runs, rlog, shown, atPress>>
mergeVars == <<given, heap, arg, dmap, argi, merged, hpc>>
vars ==
    <<fam, report, joinVars, valueVars, waterVars, sitrepVars, landslideVars,
      metadataVars, refreshVars, mergeVars>>
\* the variables of the other families
notValues ==
    <<waterVars, sitrepVars, landslideVars, metadataVars, refreshVars,
      mergeVars>>
notWater ==
    <<valueVars, sitrepVars, landslideVars, metadataVars, refreshVars,
      mergeVars>>
notSitrep ==
    <<valueVars, waterVars, landslideVars, metadataVars, refreshVars,
      mergeVars>>
notLandslide ==
    <<valueVars, waterVars, sitrepVars, metadataVars, refreshVars,
      mergeVars>>
notMetadata ==
    <<valueVars, waterVars, sitrepVars, landslideVars, refreshVars,
      mergeVars>>
notMerge ==
    <<valueVars, waterVars, sitrepVars, landslideVars, metadataVars,
      refreshVars>>
notRefresh ==
    <<valueVars, waterVars, sitrepVars, landslideVars, metadataVars,
      mergeVars>>

(***************************************************************************)
(* Python values                                                           *)
(***************************************************************************)
PyNone == [tag |-> "None"]
PyNaN == [tag |-> "NaN"]
PyStr(s) == [tag |-> "str", s |-> s]
PyInt(n) == [tag |-> "int", v |-> n]
PyFloat(m, e) == [tag |-> "float", m |-> m, e |-> e]
PyFloatNaN == [tag |-> "float_nan"]
PyFloatInf(sign) == [tag |-> "float_inf", sign |-> sign]
PyExc(type) == [tag |-> "exc", type |-> type]
Idle == [tag |-> "idle"]

IsStr(v) == v.tag = "str"
IsExc(v) == v.tag = "exc"

(***************************************************************************)
(* Characters and strings                                                  *)
(***************************************************************************)
Digits == {"0", "1", "2", "3", "4", "5", "6", "7", "8", "9"}
Whitespace == {" ", "\t", "\n"}
UpperAlpha == <<"A","B","C","D","E","F","G","H","I","J","K","L","M",
                "N","O","P","Q","R","S","T","U","V","W","X","Y","Z">>
LowerAlpha == <<"a","b","c","d","e","f","g","h","i","j","k","l","m",
                "n","o","p","q","r","s","t","u","v","w","x","y","z">>

DigitVal(c) ==
    CASE c = "0" -> 0 [] c = "1" -> 1 [] c = "2" -> 2 [] c = "3" -> 3
      [] c = "4" -> 4 [] c = "5" -> 5 [] c = "6" -> 6 [] c = "7" -> 7
      [] c = "8" -> 8 [] c = "9" -> 9

DigitChar(d) ==
    CASE d = 0 -> "0" [] d = 1 -> "1" [] d = 2 -> "2" [] d = 3 -> "3"
      [] d = 4 -> "4" [] d = 5 -> "5" [] d = 6 -> "6" [] d = 7 -> "7"
      [] d = 8 -> "8" [] d = 9 -> "9"

\* str.lower() of one character
LowerChar(c) ==
    IF \E k \in 1..Len(UpperAlpha) : UpperAlpha[k] = c
    THEN LowerAlpha[CHOOSE k \in 1..Len(UpperAlpha) : UpperAlpha[k] = c]
    ELSE c

\* str.lower()
Lower(s) == [k \in 1..Len(s) |-> LowerChar(s[k])]

\* s[a:b] with 1-based inclusive bounds, empty when a > b
Slice(s, a, b) == IF a > b THEN <<>> ELSE SubSeq(s, a, b)

RECURSIVE LStrip(_)
LStrip(s) ==
    IF s # <<>> /\ Head(s) \in Whitespace THEN LStrip(Tail(s)) ELSE s

RECURSIVE RStrip(_)
RStrip(s) ==
    IF s # <<>> /\ s[Len(s)] \in Whitespace
    THEN RStrip(SubSeq(s, 1, Len(s) - 1))
    ELSE s

\* str.strip()
Strip(s) == RStrip(LStrip(s))

\* sub occurs in s at position p (1-based)
OccursAt(s, sub, p) ==
    /\ p >= 1
    /\ p + Len(sub) - 1 <= Len(s)
    /\ \A k \in 1..Len(sub) : s[p + k - 1] = sub[k]

\* sub in s
Contains(s, sub) == \E p \in 1..(Len(s) + 1) : OccursAt(s, sub, p)

\* str.replace(old, new), old non-empty: leftmost non-overlapping occurrences
RECURSIVE Replace(_, _, _)
Replace(s, old, new) ==
    IF s = <<>> THEN <<>>
    ELSE IF OccursAt(s, old, 1)
         THEN new \o Replace(Slice(s, Len(old) + 1, Len(s)), old, new)
         ELSE <<Head(s)>> \o Replace(Tail(s), old, new)

\* the digits of the non-negative integer n, as str(n) prints them
RECURSIVE NatStr(_)
NatStr(n) ==
    IF n < 10 THEN <<DigitChar(n)>>
    ELSE NatStr(n \div 10) \o <<DigitChar(n % 10)>>

\* str(value) of a Python value: a str, None, NaN or an int
Str(v) ==
    IF IsStr(v) THEN v.s
    ELSE IF v = PyNone THEN <<"N","o","n","e">>
    ELSE IF v = PyNaN THEN <<"n","a","n">>
    ELSE IF v.v < 0 THEN <<"-">> \o NatStr(0 - v.v) ELSE NatStr(v.v)

(***************************************************************************)
(* int() and float() of a string                                           *)
(***************************************************************************)
\* a run of digits as int() and float() accept it: digits, with single
\* underscores allowed between two digits
DigitRun(s) ==
    /\ s # <<>>
    /\ \A k \in 1..Len(s) : s[k] \in Digits \cup {"_"}
    /\ s[1] \in Digits
    /\ s[Len(s)] \in Digits
    /\ \A k \in 1..(Len(s) - 1) : ~(s[k] = "_" /\ s[k + 1] = "_")

\* the number a digit run denotes (underscores skipped)
RECURSIVE RunValue(_)
RunValue(s) ==
    IF s = <<>> THEN 0
    ELSE IF s[Len(s)] = "_" THEN RunValue(SubSeq(s, 1, Len(s) - 1))
    ELSE RunValue(SubSeq(s, 1, Len(s) - 1)) * 10 + DigitVal(s[Len(s)])

\* the number of digits of a digit run
RunDigits(s) == Cardinality({k \in 1..Len(s) : s[k] \in Digits})

HasSign(s) == s # <<>> /\ s[1] \in {"+", "-"}
Unsigned(s) == IF HasSign(s) THEN Tail(s) ELSE s
SignOf(s) == IF s # <<>> /\ s[1] = "-" THEN -1 ELSE 1

\* int(s) for a str s: surrounding whitespace, an optional sign, a digit run
PyIntOfStr(s) ==
    LET t == Strip(s)
        u == Unsigned(t)
    IN  IF DigitRun(u) THEN PyInt(SignOf(t) * RunValue(u))
        ELSE PyExc("ValueError")

\* 10^n
RECURSIVE Pow10(_)
Pow10(n) == IF n <= 0 THEN 1 ELSE 10 * Pow10(n - 1)

\* the decimal m * 10^-e with no trailing zero kept in m, and e >= 0
RECURSIVE Decimal(_, _)
Decimal(m, e) ==
    IF m = 0 THEN PyFloat(0, 0)
    ELSE IF e < 0 THEN Decimal(m * 10, e + 1)
    ELSE IF e > 0 /\ m % 10 = 0 THEN Decimal(m \div 10, e - 1)
    ELSE PyFloat(m, e)

\* position of the first character of s that is in set cs, 0 if none
FirstIn(s, cs) ==
    IF \E k \in 1..Len(s) : s[k] \in cs
    THEN CHOOSE k \in 1..Len(s) : s[k] \in cs /\ \A j \in 1..(k - 1) : s[j] \notin cs
    ELSE 0

\* float(s) for a str s: surrounding whitespace, an optional sign, then
\* inf / infinity / nan in any case, or digits with an optional point and
\* an optional exponent
PyFloatOfStr(s) ==
    LET t == Strip(s)
        u == Unsigned(t)
        l == Lower(u)
        ep == FirstIn(u, {"e", "E"})
        mant == IF ep = 0 THEN u ELSE Slice(u, 1, ep - 1)
        expo == IF ep = 0 THEN <<>> ELSE Slice(u, ep + 1, Len(u))
        dp == FirstIn(mant, {"."})
        ip == IF dp = 0 THEN mant ELSE Slice(mant, 1, dp - 1)
        fp == IF dp = 0 THEN <<>> ELSE Slice(mant, dp + 1, Len(mant))
        mantOk == /\ ip = <<>> \/ DigitRun(ip)
                  /\ fp = <<>> \/ DigitRun(fp)
                  /\ ip # <<>> \/ fp # <<>>
        expoOk == ep = 0 \/ DigitRun(Unsigned(expo))
        ev == IF ep = 0 THEN 0 ELSE SignOf(expo) * RunValue(Unsigned(expo))
    IN  IF l = <<"n","a","n">> THEN PyFloatNaN
        ELSE IF l \in {<<"i","n","f">>, <<"i","n","f","i","n","i","t","y">>}
             THEN PyFloatInf(SignOf(t))
        ELSE IF mantOk /\ expoOk
             THEN Decimal(SignOf(t) * (RunValue(ip) * Pow10(RunDigits(fp)) + RunValue(fp)),
                          RunDigits(fp) - ev)
        ELSE PyExc("ValueError")

(***************************************************************************)
(* Value normalisers                                                       *)
(***************************************************************************)
\* pd.isna(value) of a scalar
IsNa(v) == v \in {PyNone, PyNaN, PyFloatNaN}

\* clean_numeric_value without the removal of the thousands separators
clean_numeric_value_keeps_commas(v) ==
    IF v = PyNone \/ v = PyStr(<<"-">>) \/ v = PyStr(<<>>) \/ IsNa(v)
    THEN PyInt(0)
    ELSE LET r == PyIntOfStr(Strip(Str(v)))
         IN  IF IsExc(r) /\ r.type \in {"ValueError", "TypeError"}
             THEN PyInt(0)
             ELSE r

\* pdf_extractor.clean_numeric_value; the try block's outcome is the
\* int or the exception int() raises, and the except clause turns
\* ValueError and TypeError into 0
clean_numeric_value(v) ==
    IF v = PyNone \/ v = PyStr(<<"-">>) \/ v = PyStr(<<>>) \/ IsNa(v)
    THEN PyInt(0)
    ELSE LET r == PyIntOfStr(Strip(Replace(Str(v), <<",">>, <<>>)))
         IN  IF IsExc(r) /\ r.type \in {"ValueError", "TypeError"}
             THEN PyInt(0)
             ELSE r

\* float(v): of a str by its text, of a float or an int the number itself
PyFloatOf(v) ==
    CASE IsStr(v) -> PyFloatOfStr(v.s)
      [] v.tag = "int" -> Decimal(v.v, 0)
      [] v = PyNaN -> PyFloatNaN
      [] OTHER -> PyExc("TypeError")

\* "not s": None, the empty string and 0 are falsy
Falsy(v) == v = PyNone \/ v = PyStr(<<>>) \/ v = PyInt(0)

\* flood_extractor.parse_float, the closure inside parse_water_level_table
parse_float(v) ==
    IF Falsy(v) \/ v \in {PyStr(<<"N","A">>), PyStr(<<"-">>)}
    THEN PyNone
    ELSE LET r == PyFloatOf(v)
         IN  IF IsExc(r) /\ r.type = "ValueError" THEN PyNone ELSE r

(***************************************************************************)
(* Name canonicalisers                                                     *)
(***************************************************************************)
Rathnapura == <<"R","a","t","h","n","a","p","u","r","a">>
Ratnapura == <<"R","a","t","n","a","p","u","r","a">>
NuwaraEliya == <<"N","u","w","a","r","a","E","l","i","y","a">>
Nuwaraeliya == <<"N","u","w","a","r","a","e","l","i","y","a">>
Nuwara_Eliya == <<"N","u","w","a","r","a"," ","E","l","i","y","a">>

\* pdf_extractor.normalize_district_name (situation reports)
normalize_district_name(v) ==
    IF v = PyNone \/ IsNa(v) THEN PyStr(<<>>)
    ELSE LET name == Strip(Str(v))
         IN  IF name = Rathnapura THEN PyStr(Ratnapura) ELSE PyStr(name)

\* an alias table whose entry for one alias is itself an alias
name_mapping_chained(name) ==
    CASE name = Rathnapura -> Ratnapura
      [] name = NuwaraEliya -> Nuwaraeliya
      [] name = Nuwaraeliya -> Nuwara_Eliya
      [] OTHER -> name

\* the alias table of the landslide canonicaliser
name_mapping(name) ==
    CASE name = Rathnapura -> Ratnapura
      [] name = NuwaraEliya -> Nuwara_Eliya
      [] name = Nuwaraeliya -> Nuwara_Eliya
      [] OTHER -> name

\* landslide_extractor.normalize_district_name
landslide_normalize_district_name(v) ==
    IF v = PyNone \/ IsNa(v) THEN PyStr(<<>>)
    ELSE PyStr(name_mapping(Strip(Str(v))))

(***************************************************************************)
(* Water-level bulletins: flood_extractor.parse_water_level_table          *)
(***************************************************************************)
\* str.split(sep) for a one-character separator
RECURSIVE Split(_, _)
Split(s, sep) ==
    LET p == FirstIn(s, {sep})
    IN  IF p = 0 THEN <<s>>
        ELSE <<Slice(s, 1, p - 1)>> \o Split(Slice(s, p + 1, Len(s)), sep)

\* sep.join(parts)
RECURSIVE Join(_, _)
Join(parts, sep) ==
    IF parts = <<>> THEN <<>>
    ELSE IF Len(parts) = 1 THEN parts[1]
    ELSE parts[1] \o sep \o Join(Tail(parts), sep)

\* [line.strip() for line in text.split('\n') if line.strip()]
RECURSIVE StripNonBlank(_)
StripNonBlank(raw) ==
    IF raw = <<>> THEN <<>>
    ELSE IF Strip(Head(raw)) = <<>> THEN StripNonBlank(Tail(raw))
    ELSE <<Strip(Head(raw))>> \o StripNonBlank(Tail(raw))

SplitLines(t) == StripNonBlank(Split(t, "\n"))

KelaniGanga == <<"K","e","l","a","n","i"," ","G","a","n","g","a">>
KaluGanga == <<"K","a","l","u"," ","G","a","n","g","a">>
\* a basin context that names no basin until a basin header is read
unknown_basin == <<"U","n","k","n","o","w","n">>
\* line 101: the basin context before any basin header is read
default_basin == <<"K","e","l","a","n","i"," ","G","a","n","g","a"," ","(","R","B"," ","0","1",")">>

tributary_names ==
    {<<"K","e","l","a","n","i"," ","G","a","n","g","a">>,
     <<"G","u","r","u","g","o","d","a"," ","O","y","a">>,
     <<"S","e","e","t","h","a","w","a","k","a"," ","G","a","n","g","a">>,
     <<"K","e","h","e","l","g","a","m","u"," ","O","y","a">>,
     <<"K","a","l","u"," ","G","a","n","g","a">>,
     <<"M","a","g","u","r","u"," ","G","a","n","g","a">>,
     <<"K","u","d","a"," ","G","a","n","g","a">>,
     <<"G","i","n"," ","G","a","n","g","a">>,
     <<"N","i","l","w","a","l","a"," ","G","a","n","g","a">>,
     <<"U","r","u","b","o","k","k","a"," ","G","a","n","g","a">>,
     <<"W","a","l","a","w","e"," ","G","a","n","g","a">>,
     <<"K","i","r","i","n","d","i"," ","O","y","a">>,
     <<"K","u","d","a"," ","O","y","a">>,
     <<"M","e","n","i","k"," ","G","a","n","g","a">>,
     <<"K","u","m","b","u","k","k","a","n"," ","O","y","a">>,
     <<"H","e","d","a"," ","O","y","a">>,
     <<"M","a","d","u","r","u"," ","O","y","a">>,
     <<"M","a","h","a","w","e","l","i"," ","G","a","n","g","a">>,
     <<"B","a","d","u","l","u"," ","O","y","a">>,
     <<"Y","a","n"," ","O","y","a">>,
     <<"M","u","k","u","n","u"," ","O","y","a">>,
     <<"M","a","l","w","a","t","h","u"," ","O","y","a">>,
     <<"M","e","e"," ","O","y","a">>,
     <<"D","e","d","u","r","u"," ","O","y","a">>,
     <<"M","a","h","a"," ","O","y","a">>,
     <<"A","t","t","a","n","a","g","a","l","u"," ","O","y","a">>}

\* a unit check that also lets centimetres through
units_with_cm == {<<"m">>, <<"f","t">>, <<"c","m">>}
\* line 157: the two units a station can be gauged in
units == {<<"m">>, <<"f","t">>}
remarks_vocabulary == {<<"N","o","r","m","a","l">>, <<"A","l","e","r","t">>, <<"M","i","n","o","r">>, <<"M","a","j","o","r">>}
trend_vocabulary == {<<"R","i","s","i","n","g">>, <<"F","a","l","l","i","n","g">>}
\* the backtick character (a string of the module cannot hold it)
Backtick == "backtick"
footer_markers ==
    {<<"P","r","e","p","a","r","e","d"," ","b","y">>,
     <<"D","i","r","e","c","t","o","r">>, <<Backtick>>}
Dash == <<"-">>

\* the least line index a data line may have is above this
MinOffset == 10

\* the line at 0-based index k
LineAt(ls, k) == ls[k + 1]

\* the first index i > MinOffset with lines[i] == 'Kelani Ganga', -1 for None
data_start_idx(ls) ==
    LET hits == {k \in 0..(Len(ls) - 1) : LineAt(ls, k) = KelaniGanga /\ k > MinOffset}
    IN  IF hits = {} THEN -1
        ELSE CHOOSE k \in hits : \A j \in hits : k <= j

\* 'Prepared by' in line or 'Director' in line or a backtick in line
IsFooter(line) == \E m \in footer_markers : Contains(line, m)

\* the number of characters of s from 1-based position p on that are in cs
RECURSIVE RunLength(_, _, _)
RunLength(s, p, cs) ==
    IF p <= Len(s) /\ s[p] \in cs THEN 1 + RunLength(s, p + 1, cs) ELSE 0

\* where \s+\(RB\s+\d+\) ends when its "(" is at 1-based position j, 0 if it
\* does not match there
BasinTailEnd(line, j) ==
    LET ws == RunLength(line, j + 3, Whitespace)
        ds == RunLength(line, j + 3 + ws, Digits)
        close == j + 3 + ws + ds
    IN  IF /\ j >= 3
           /\ line[j - 1] \in Whitespace
           /\ OccursAt(line, <<"(","R","B">>, j)
           /\ ws >= 1 /\ ds >= 1
           /\ close <= Len(line) /\ line[close] = ")"
        THEN close
        ELSE 0

\* re.search(r'(.+\s+\(RB\s+\d+\))', line): group(1).strip() when it matches,
\* <<>> when it does not.  A line holds no newline and starts with no
\* whitespace, so the leftmost match starts at the line's first character,
\* and the greedy .+ makes it end at the last "(RB nn)".
basin_match(line) ==
    LET ends == {BasinTailEnd(line, j) : j \in 1..Len(line)} \ {0}
    IN  IF ends = {} THEN <<>>
        ELSE Strip(Slice(line, 1, CHOOSE e \in ends : \A f \in ends : f <= e))

\* a first optional line taken by position: whatever follows the values is
\* the remark
Sniff1_positional(ls, i0) ==
    IF i0 < Len(ls)
    THEN [remarks |-> PyStr(LineAt(ls, i0)), rainfall |-> PyNone, i |-> i0 + 1]
    ELSE [remarks |-> PyNone, rainfall |-> PyNone, i |-> i0]

\* the first optional line after the five values: remarks, '-', or rainfall
Sniff1(ls, i0) ==
    IF i0 < Len(ls)
    THEN LET next_val == LineAt(ls, i0)
             rain == parse_float(PyStr(next_val))
         IN  IF next_val \in remarks_vocabulary
             THEN [remarks |-> PyStr(next_val), rainfall |-> PyNone, i |-> i0 + 1]
             ELSE IF next_val # Dash
             THEN [remarks |-> PyNone, rainfall |-> rain,
                   i |-> IF rain # PyNone THEN i0 + 1 ELSE i0]
             ELSE [remarks |-> PyNone, rainfall |-> PyNone, i |-> i0 + 1]
    ELSE [remarks |-> PyNone, rainfall |-> PyNone, i |-> i0]

\* a second optional line that is consumed whatever it holds
Sniff2_always_consumes(ls, i0, rainfall) ==
    IF i0 < Len(ls)
    THEN LET next_val == LineAt(ls, i0)
         IN  [trend |-> IF next_val \in trend_vocabulary THEN PyStr(next_val) ELSE PyNone,
              rainfall |-> rainfall, i |-> i0 + 1]
    ELSE [trend |-> PyNone, rainfall |-> rainfall, i |-> i0]

\* the next optional line: trend, '-', or rainfall if none was read yet
Sniff2(ls, i0, rainfall) ==
    IF i0 < Len(ls)
    THEN LET next_val == LineAt(ls, i0)
             rain == parse_float(PyStr(next_val))
         IN  IF next_val \in trend_vocabulary
             THEN [trend |-> PyStr(next_val), rainfall |-> rainfall, i |-> i0 + 1]
             ELSE IF next_val # Dash
             THEN IF rainfall = PyNone
                  THEN [trend |-> PyNone, rainfall |-> rain,
                        i |-> IF rain # PyNone THEN i0 + 1 ELSE i0]
                  ELSE [trend |-> PyNone, rainfall |-> rainfall, i |-> i0]
             ELSE [trend |-> PyNone, rainfall |-> rainfall, i |-> i0 + 1]
    ELSE [trend |-> PyNone, rainfall |-> rainfall, i |-> i0]

\* the station_data dictionary built from the block whose tributary line is
\* at index t, under the basin context basin, s1 and s2 being what the two
\* optional lines gave
station_data(ls, t, basin, s1, s2) ==
    [river_basin |-> basin,
     tributary |-> LineAt(ls, t),
     station |-> LineAt(ls, t + 1),
     unit |-> LineAt(ls, t + 2),
     alert_level |-> parse_float(PyStr(LineAt(ls, t + 3))),
     minor_flood_level |-> parse_float(PyStr(LineAt(ls, t + 4))),
     major_flood_level |-> parse_float(PyStr(LineAt(ls, t + 5))),
     water_level_reading_1 |-> parse_float(PyStr(LineAt(ls, t + 6))),
     water_level_reading_2 |-> parse_float(PyStr(LineAt(ls, t + 7))),
     remarks |-> s1.remarks,
     water_level_trend |-> s2.trend,
     rainfall_6hr_mm |-> s2.rainfall]

(***************************************************************************)
(* parse_divisions: the division names of a table cell                     *)
(***************************************************************************)
\* the arrow characters (a string of the module cannot hold them)
DownArrow == "downarrow"
UpArrow == "uparrow"

\* lines 89-96, in the order they are removed
artifacts_to_remove ==
    <<<<"D","i","v","i","s","i","o","n","a","l"," ","S","e","c","r","e","t","a","r","i","a","t">>,
      <<"D","i","v","i","s","i","o","n","(","s",")"," ","(","D","S","D",")">>,
      <<"D","S","D">>,
      <<"a","n","d"," ","s","u","r","r","o","u","n","d","i","n","g"," ","a","r","e","a","s">>,
      <<"s","u","r","r","o","u","n","d","i","n","g"," ","a","r","e","a","s">>,
      <<"(","D","S","D",")">>>>

\* the cells that stand for no division
empty_indicators == {<<"-">>, <<>>, <<"N","o","n","e">>, <<"n","a","n">>}

\* the tokens that are no division name
division_stoplist == {<<"-">>, <<"n","o","n","e">>, <<"n","a","n">>, <<".">>}

\* lines 97-98: every occurrence of each artifact removed, one artifact
\* after the other
RECURSIVE RemoveArtifacts(_, _)
RemoveArtifacts(s, arts) ==
    IF arts = <<>> THEN s
    ELSE RemoveArtifacts(Replace(s, Head(arts), <<>>), Tail(arts))

\* re.sub(r'\s+', ' ', s)
RECURSIVE CollapseWhitespace(_)
CollapseWhitespace(s) ==
    IF s = <<>> THEN <<>>
    ELSE IF s[1] \in Whitespace THEN <<" ">> \o CollapseWhitespace(LStrip(s))
    ELSE <<s[1]>> \o CollapseWhitespace(Tail(s))

\* re.sub(r'\s+and\s+', ', ', s, flags=re.IGNORECASE): matches are found
\* from left to right and do not overlap
RECURSIVE AndToComma(_)
AndToComma(s) ==
    IF s = <<>> THEN <<>>
    ELSE LET rest == LStrip(s)
         IN  IF /\ s[1] \in Whitespace
                /\ Len(rest) >= 4
                /\ Lower(SubSeq(rest, 1, 3)) = <<"a","n","d">>
                /\ rest[4] \in Whitespace
             THEN <<",", " ">> \o AndToComma(LStrip(SubSeq(rest, 4, Len(rest))))
             ELSE <<s[1]>> \o AndToComma(Tail(s))

\* str.isdigit()
IsDigit(s) == s # <<>> /\ \A k \in 1..Len(s) : s[k] \in Digits

\* lines 116-122: whether a token is kept as a division name
IsDivision(d) ==
    Len(d) >= 3 /\ Lower(d) \notin division_stoplist /\ ~IsDigit(d)

\* lines 87-108: the cell's text ready to be split
CleanCell(s) ==
    AndToComma(Replace(Replace(Replace(
        CollapseWhitespace(RemoveArtifacts(s, artifacts_to_remove)),
        <<DownArrow>>, <<>>), <<UpArrow>>, <<>>), <<"_">>, <<>>))

StripEach(parts) == [k \in 1..Len(parts) |-> Strip(parts[k])]

\* landslide_extractor.parse_divisions
parse_divisions(cell_value) ==
    IF IsNa(cell_value) THEN <<>>
    ELSE IF Strip(Str(cell_value)) \in empty_indicators THEN <<>>
    ELSE SelectSeq(StripEach(Split(CleanCell(Strip(Str(cell_value))), ",")),
                   IsDivision)

(***************************************************************************)
(* parse_landslide_table and merge_district_warnings: their parts          *)
(***************************************************************************)
\* lines 167-176: what the header of a column says the column is
HeaderKind(col) ==
    LET col_str == Lower(col)
    IN  IF Contains(col_str, <<"d","i","s","t","r","i","c","t">>) THEN "district"
        ELSE IF Contains(col_str, <<"l","e","v","e","l"," ","1">>) \/ Contains(col_str, <<"y","e","l","l","o","w">>)
        THEN "level_1"
        ELSE IF Contains(col_str, <<"l","e","v","e","l"," ","2">>) \/ Contains(col_str, <<"a","m","b","e","r">>)
        THEN "level_2"
        ELSE IF Contains(col_str, <<"l","e","v","e","l"," ","3">>) \/ Contains(col_str, <<"r","e","d">>)
        THEN "level_3"
        ELSE "other"

\* the column the loop over the headers leaves assigned to a kind: the last
\* one of that kind, as a 0-based index, or -1 for None
LastOfKind(cols, kind) ==
    LET ks == {k \in 1..Len(cols) : HeaderKind(cols[k]) = kind}
    IN  IF ks = {} THEN -1
        ELSE (CHOOSE k \in ks : \A j \in ks : j <= k) - 1

\* line 181: df[cols[0]].dropna().astype(str).tolist()[:5]
first_col_values(d) ==
    LET col == [k \in 1..Len(d.rows) |-> d.rows[k][1]]
        kept == SelectSeq(col, LAMBDA v : ~IsNa(v))
    IN  [k \in 1..(IF Len(kept) < 5 THEN Len(kept) ELSE 5) |-> Str(kept[k])]

\* line 182: the first column holds row numbers
has_numbers(d) ==
    \A k \in 1..Len(first_col_values(d)) :
        LET v == first_col_values(d)[k]
        IN  v = <<>> \/ IsDigit(v) \/ Lower(v) \in {<<"n","o">>, <<"n","o",".">>}

\* lines 162-199: the district column and the three level columns
column_layout(d) ==
    IF LastOfKind(d.columns, "district") # -1
    THEN [district_col |-> LastOfKind(d.columns, "district"),
          level_1 |-> LastOfKind(d.columns, "level_1"),
          level_2 |-> LastOfKind(d.columns, "level_2"),
          level_3 |-> LastOfKind(d.columns, "level_3"),
          by |-> "header"]
    ELSE IF has_numbers(d) /\ Len(d.columns) >= 5
    THEN [district_col |-> 1, level_1 |-> 2, level_2 |-> 3, level_3 |-> 4,
          by |-> "ordinal"]
    ELSE IF Len(d.columns) >= 4
    THEN [district_col |-> 0, level_1 |-> 1, level_2 |-> 2, level_3 |-> 3,
          by |-> "position"]
    ELSE [district_col |-> -1, level_1 |-> -1, level_2 |-> -1, level_3 |-> -1,
          by |-> "none"]

\* lines 210-214
skip_values ==
    {<<>>, <<"n","o","n","e">>, <<"d","i","s","t","r","i","c","t">>, <<"d","i","s","t","r","i","c","t","s">>,
     <<"t","o","t","a","l">>, <<"g","r","a","n","d"," ","t","o","t","a","l">>, <<"n","o">>, <<"n","o",".">>,
     <<"s","l"," ","n","o">>, <<"s","l",".","n","o">>, <<"0">>, <<"1">>,
     <<"2">>, <<"3">>, <<"4">>, <<"5">>,
     <<"l","e","v","e","l"," ","1">>, <<"l","e","v","e","l"," ","2">>, <<"l","e","v","e","l"," ","3">>, <<"y","e","l","l","o","w">>,
     <<"a","m","b","e","r">>, <<"r","e","d">>}

\* lines 206-207: the canonical district name of a row
warning_district(d, r, lay) ==
    landslide_normalize_district_name(
        PyStr(Strip(Str(r[lay.district_col + 1])))).s

\* lines 215-220: the row is a header, a total or an ordinal
IsSkippedRow(name) ==
    name = <<>> \/ Lower(name) \in skip_values \/ IsDigit(name)

\* lines 223-225: the divisions of a level, none when the level has no
\* column or the column no name
level_divs(d, r, c) ==
    IF c = -1 \/ d.columns[c + 1] = <<>> THEN <<>>
    ELSE parse_divisions(r[c + 1])

\* a max_level that reports the lowest level that has divisions
max_level_lowest(n1, n2, n3) ==
    IF n1 > 0 THEN 1 ELSE IF n2 > 0 THEN 2 ELSE IF n3 > 0 THEN 3 ELSE 0

\* lines 228-235, and 338-345 on the counts
max_level(n1, n2, n3) ==
    IF n3 > 0 THEN 3 ELSE IF n2 > 0 THEN 2 ELSE IF n1 > 0 THEN 1 ELSE 0

\* lines 237-247: the record of a district
district_warning(name, l1, l2, l3) ==
    [district |-> name,
     level_1_divisions |-> l1,
     level_2_divisions |-> l2,
     level_3_divisions |-> l3,
     level_1_count |-> Len(l1),
     level_2_count |-> Len(l2),
     level_3_count |-> Len(l3),
     total_warnings |-> Len(l1) + Len(l2) + Len(l3),
     max_level |-> max_level(Len(l1), Len(l2), Len(l3))]

Range(s) == {s[k] : k \in 1..Len(s)}

\* list(a_set): the elements of the set once each, in an order the
\* interpreter chooses
Orders(set) ==
    {o \in [1..Cardinality(set) -> set] : Range(o) = set}

\* the index in the district map of the record of a district, 0 when it has
\* none
IndexOf(map, name) ==
    IF \E k \in 1..Len(map) : map[k].district = name
    THEN CHOOSE k \in 1..Len(map) : map[k].district = name
    ELSE 0

\* lines 322-345: the record of a district after another record of the
\* same district is merged into it, o1, o2 and o3 being the united lists
merged_warning(existing, o1, o2, o3) ==
    [district |-> existing.district,
     level_1_divisions |-> o1,
     level_2_divisions |-> o2,
     level_3_divisions |-> o3,
     level_1_count |-> Len(o1),
     level_2_count |-> Len(o2),
     level_3_count |-> Len(o3),
     total_warnings |-> Len(o1) + Len(o2) + Len(o3),
     max_level |-> max_level(Len(o1), Len(o2), Len(o3))]

(***************************************************************************)
(* The totals of a report: calculate_totals of the two table extractors    *)
(* and the grouping and totals of extract_flood_data                       *)
(***************************************************************************)
\* sum(...) over a list of integers
RECURSIVE Sum(_)
Sum(s) == IF s = <<>> THEN 0 ELSE Head(s) + Sum(Tail(s))

\* len([d for d in ds if ...]): the number of entries of a list of booleans
\* that hold
CountTrue(bs) == Cardinality({k \in 1..Len(bs) : bs[k]})

\* a calculate_totals whose people total is taken from the families column
calculate_totals_families_twice(ds) ==
    [total_families_affected |-> Sum([k \in 1..Len(ds) |-> ds[k].families_affected.v]),
     total_people_affected |-> Sum([k \in 1..Len(ds) |-> ds[k].families_affected.v]),
     total_deaths |-> Sum([k \in 1..Len(ds) |-> ds[k].deaths.v]),
     total_missing |-> Sum([k \in 1..Len(ds) |-> ds[k].missing.v]),
     total_houses_fully_damaged |-> Sum([k \in 1..Len(ds) |-> ds[k].houses_fully_damaged.v]),
     total_houses_partially_damaged |-> Sum([k \in 1..Len(ds) |-> ds[k].houses_partially_damaged.v]),
     total_safety_centers |-> Sum([k \in 1..Len(ds) |-> ds[k].safety_centers.v]),
     total_families_displaced |-> Sum([k \in 1..Len(ds) |-> ds[k].families_displaced.v]),
     total_people_displaced |-> Sum([k \in 1..Len(ds) |-> ds[k].people_displaced.v]),
     districts_affected |-> Len(ds)]

\* pdf_extractor.calculate_totals
calculate_totals(ds) ==
    [total_families_affected |-> Sum([k \in 1..Len(ds) |-> ds[k].families_affected.v]),
     total_people_affected |-> Sum([k \in 1..Len(ds) |-> ds[k].people_affected.v]),
     total_deaths |-> Sum([k \in 1..Len(ds) |-> ds[k].deaths.v]),
     total_missing |-> Sum([k \in 1..Len(ds) |-> ds[k].missing.v]),
     total_houses_fully_damaged |-> Sum([k \in 1..Len(ds) |-> ds[k].houses_fully_damaged.v]),
     total_houses_partially_damaged |-> Sum([k \in 1..Len(ds) |-> ds[k].houses_partially_damaged.v]),
     total_safety_centers |-> Sum([k \in 1..Len(ds) |-> ds[k].safety_centers.v]),
     total_families_displaced |-> Sum([k \in 1..Len(ds) |-> ds[k].families_displaced.v]),
     total_people_displaced |-> Sum([k \in 1..Len(ds) |-> ds[k].people_displaced.v]),
     districts_affected |-> Len(ds)]

\* landslide_extractor.calculate_totals
landslide_calculate_totals(ds) ==
    [districts_with_warnings |-> CountTrue([k \in 1..Len(ds) |-> ds[k].total_warnings > 0]),
     districts_level_3 |-> CountTrue([k \in 1..Len(ds) |-> ds[k].level_3_count > 0]),
     districts_level_2 |-> CountTrue([k \in 1..Len(ds) |-> ds[k].level_2_count > 0]),
     districts_level_1 |-> CountTrue([k \in 1..Len(ds) |-> ds[k].level_1_count > 0]),
     total_level_1 |-> Sum([k \in 1..Len(ds) |-> ds[k].level_1_count]),
     total_level_2 |-> Sum([k \in 1..Len(ds) |-> ds[k].level_2_count]),
     total_level_3 |-> Sum([k \in 1..Len(ds) |-> ds[k].level_3_count]),
     total_divisions_affected |-> Sum([k \in 1..Len(ds) |-> ds[k].total_warnings])]

\* the keys of the basins dict of extract_flood_data, in insertion order:
\* the basins of the stations, each at its first occurrence
RECURSIVE basin_names(_)
basin_names(sts) ==
    IF sts = <<>> THEN <<>>
    ELSE LET before == basin_names(SubSeq(sts, 1, Len(sts) - 1))
             name == sts[Len(sts)].river_basin
         IN  IF \E k \in 1..Len(before) : before[k] = name
             THEN before ELSE Append(before, name)

\* lines 267-279: the entry of a station in the list of its basin
basin_entry(st) ==
    [tributary |-> st.tributary,
     station |-> st.station,
     unit |-> st.unit,
     alert_level |-> st.alert_level,
     minor_flood_level |-> st.minor_flood_level,
     major_flood_level |-> st.major_flood_level,
     water_level_reading_1 |-> st.water_level_reading_1,
     water_level_reading_2 |-> st.water_level_reading_2,
     remarks |-> st.remarks,
     water_level_trend |-> st.water_level_trend,
     rainfall_6hr_mm |-> st.rainfall_6hr_mm]

\* the stations of one basin, in the order of the stations
RECURSIVE basin_stations(_, _)
basin_stations(sts, name) ==
    IF sts = <<>> THEN <<>>
    ELSE IF Head(sts).river_basin = name
    THEN <<basin_entry(Head(sts))>> \o basin_stations(Tail(sts), name)
    ELSE basin_stations(Tail(sts), name)

\* lines 262-280: the basins dict, an entry per basin
river_basins(sts) ==
    [k \in 1..Len(basin_names(sts)) |->
        [name |-> basin_names(sts)[k],
         stations |-> basin_stations(sts, basin_names(sts)[k])]]

Alert == <<"A","l","e","r","t">>
Normal == <<"N","o","r","m","a","l">>
Rising == <<"R","i","s","i","n","g">>
Falling == <<"F","a","l","l","i","n","g">>

\* lines 282-289: the totals of extract_flood_data
flood_totals(sts, basins) ==
    [total_stations |-> Len(sts),
     total_basins |-> Len(basins),
     stations_with_alert |-> CountTrue([k \in 1..Len(sts) |-> sts[k].remarks = PyStr(Alert)]),
     stations_normal |-> CountTrue([k \in 1..Len(sts) |-> sts[k].remarks = PyStr(Normal)]),
     stations_rising |-> CountTrue([k \in 1..Len(sts) |-> sts[k].water_level_trend = PyStr(Rising)]),
     stations_falling |-> CountTrue([k \in 1..Len(sts) |-> sts[k].water_level_trend = PyStr(Falling)])]

(***************************************************************************)
(* convert_to_geojson: the landslide report joined with the district       *)
(* boundaries, and the situation report as point features                  *)
(***************************************************************************)
\* landslide_extractor line 423: the lookup of the records by district, a
\* later record of a district replacing an earlier one; 0 for no record
landslide_lookup(ds, name) ==
    IF \E k \in 1..Len(ds) : PyStr(ds[k].district) = name
    THEN CHOOSE k \in 1..Len(ds) :
            /\ PyStr(ds[k].district) = name
            /\ \A j \in (k + 1)..Len(ds) : PyStr(ds[j].district) # name
    ELSE 0

\* line 430: feature["properties"].get("district", ""), the district of a
\* catalog feature, None standing for a feature that has no such property
feature_district(f) == IF f.district = PyNone THEN PyStr(<<>>) ELSE f.district

\* lines 432-455: the properties of a catalog feature after the update
joined_properties(f, ds) ==
    IF landslide_lookup(ds, feature_district(f)) # 0
    THEN LET warning == ds[landslide_lookup(ds, feature_district(f))]
         IN  [district |-> f.district,
              max_level |-> warning.max_level,
              level_1_count |-> warning.level_1_count,
              level_2_count |-> warning.level_2_count,
              level_3_count |-> warning.level_3_count,
              total_warnings |-> warning.total_warnings,
              level_1_divisions |-> warning.level_1_divisions,
              level_2_divisions |-> warning.level_2_divisions,
              level_3_divisions |-> warning.level_3_divisions]
    ELSE [district |-> f.district,
          max_level |-> 0,
          level_1_count |-> 0,
          level_2_count |-> 0,
          level_3_count |-> 0,
          total_warnings |-> 0,
          level_1_divisions |-> <<>>,
          level_2_divisions |-> <<>>,
          level_3_divisions |-> <<>>]

\* landslide_extractor.convert_to_geojson: the copy of the catalog, each
\* feature updated, the totals of the report added
landslide_convert_to_geojson(data, districts_geojson) ==
    [features |-> [k \in 1..Len(districts_geojson) |->
                      joined_properties(districts_geojson[k], data.districts)],
     totals |-> data.totals]

\* pdf_extractor lines 275-293: the point feature of a district record
point_feature(d) ==
    [coordinates |-> <<d.lon, d.lat>>,
     district |-> PyStr(d.district),
     families_affected |-> d.families_affected,
     people_affected |-> d.people_affected,
     deaths |-> d.deaths,
     missing |-> d.missing,
     houses_fully_damaged |-> d.houses_fully_damaged,
     houses_partially_damaged |-> d.houses_partially_damaged,
     safety_centers |-> d.safety_centers,
     families_displaced |-> d.families_displaced,
     people_displaced |-> d.people_displaced]

\* pdf_extractor.convert_to_geojson: one feature for each district record
convert_to_geojson(data) ==
    [features |-> [k \in 1..Len(data.districts) |-> point_feature(data.districts[k])],
     totals |-> data.totals]

\* boundary catalogs: the district property of each feature, None for a
\* feature without one
Catalogs ==
    {<<>>,
     <<[district |-> PyStr(<<"K","a","n","d","y">>)]>>,
     <<[district |-> PyStr(<<"K","a","n","d","y">>)], [district |-> PyStr(<<"C","o","l","o","m","b","o">>)]>>,
     <<[district |-> PyStr(<<"B","a","d","u","l","l","a">>)], [district |-> PyNone]>>,
     <<[district |-> PyStr(<<"B","a","d","u","l","l","a">>)], [district |-> PyStr(<<"K","a","n","d","y">>)],
       [district |-> PyStr(<<"M","a","t","a","r","a">>)]>>}

(***************************************************************************)
(* The metadata extractors: the report date searched in the text with a    *)
(* regular expression and parsed with datetime.strptime.  Positions are    *)
(* 0-based, as in the code.  Of the metadata the model keeps the date      *)
(* fields; a key the dict does not hold is Absent.                         *)
(***************************************************************************)
Absent == [tag |-> "absent"]
Unknown == PyStr(<<"U","n","k","n","o","w","n">>)

\* \d{n} at position p
DigitsAt(s, p, n) ==
    /\ p + n <= Len(s)
    /\ \A k \in 1..n : s[p + k] \in Digits

\* a literal at position p
LitAt(s, p, lit) == OccursAt(s, lit, p + 1)

\* a literal at position p under re.IGNORECASE, lit in lower case
LitAtIgnoreCase(s, p, lit) ==
    /\ p + Len(lit) <= Len(s)
    /\ Lower(SubSeq(s, p + 1, p + Len(lit))) = lit

\* \s* from position p: the position after the whitespace
RECURSIVE SkipWs(_, _)
SkipWs(s, p) ==
    IF p < Len(s) /\ s[p + 1] \in Whitespace THEN SkipWs(s, p + 1) ELSE p

\* \d{4}<sep>\d{2}<sep>\d{2} at position p, each separator one of seps
DateAt(s, p, seps) ==
    /\ p + 10 <= Len(s)
    /\ DigitsAt(s, p, 4) /\ s[p + 5] \in seps
    /\ DigitsAt(s, p + 5, 2) /\ s[p + 8] \in seps
    /\ DigitsAt(s, p + 8, 2)

\* re.search: the leftmost of the positions at which the pattern matches,
\* -1 for no match
FirstMatch(hits) ==
    IF hits = {} THEN -1 ELSE CHOOSE p \in hits : \A r \in hits : p <= r

\* the value of a run of decimal digits
RECURSIVE DecVal(_)
DecVal(s) ==
    IF s = <<>> THEN 0
    ELSE DecVal(SubSeq(s, 1, Len(s) - 1)) * 10 + DigitVal(s[Len(s)])

\* n printed with at least w digits
RECURSIVE Pad(_, _)
Pad(n, w) ==
    IF w <= 1 THEN NatStr(n)
    ELSE IF Len(NatStr(n)) >= w THEN NatStr(n)
    ELSE <<"0">> \o Pad(n, w - 1)

IsLeap(y) == y % 4 = 0 /\ (y % 100 # 0 \/ y % 400 = 0)

DaysIn(y, m) ==
    IF m \in {1, 3, 5, 7, 8, 10, 12} THEN 31
    ELSE IF m \in {4, 6, 9, 11} THEN 30
    ELSE IF IsLeap(y) THEN 29 ELSE 28

\* the month names of %B; %b is the first three letters of each
month_names ==
    <<<<"J","a","n","u","a","r","y">>,
      <<"F","e","b","r","u","a","r","y">>,
      <<"M","a","r","c","h">>,
      <<"A","p","r","i","l">>,
      <<"M","a","y">>,
      <<"J","u","n","e">>,
      <<"J","u","l","y">>,
      <<"A","u","g","u","s","t">>,
      <<"S","e","p","t","e","m","b","e","r">>,
      <<"O","c","t","o","b","e","r">>,
      <<"N","o","v","e","m","b","e","r">>,
      <<"D","e","c","e","m","b","e","r">>>>

\* %b, matched without regard to case: the number of the month, 0 for none
MonthOfAbbr(abbr) ==
    IF \E m \in 1..12 : Lower(SubSeq(month_names[m], 1, 3)) = Lower(abbr)
    THEN CHOOSE m \in 1..12 : Lower(SubSeq(month_names[m], 1, 3)) = Lower(abbr)
    ELSE 0

\* the datetime strptime returns, or ValueError: the fields are given as the
\* regular expression captured them (a four-digit year, a two-digit month,
\* hour and minute, a day of one or two digits), so a field out of range
\* either fails to match or leaves unconverted data
strptime(y, m, d, h, mi) ==
    IF /\ y >= 1 /\ m \in 1..12 /\ d >= 1 /\ d <= DaysIn(y, m)
       /\ h \in 0..23 /\ mi \in 0..59
    THEN [tag |-> "datetime", year |-> y, month |-> m, day |-> d,
          hour |-> h, minute |-> mi]
    ELSE PyExc("ValueError")

\* datetime.isoformat()
isoformat(dt) ==
    Pad(dt.year, 4) \o <<"-">> \o Pad(dt.month, 2) \o <<"-">> \o Pad(dt.day, 2)
    \o <<"T">> \o Pad(dt.hour, 2) \o <<":">> \o Pad(dt.minute, 2) \o <<":","0","0">>

\* strftime("%B %d, %Y")
strftime_date(dt) ==
    month_names[dt.month] \o <<" ">> \o Pad(dt.day, 2) \o <<",", " ">> \o NatStr(dt.year)

\* strftime("%B %d, %Y at %H:%M hrs")
strftime_date_time(dt) ==
    strftime_date(dt) \o <<" ","a","t"," ">> \o Pad(dt.hour, 2) \o <<":">>
    \o Pad(dt.minute, 2) \o <<" ","h","r","s">>

NoDates ==
    [report_date |-> Absent, report_date_formatted |-> Absent,
     report_date_raw |-> Absent, report_date_str |-> Absent]

\* pdf_extractor line 57: "Situation Report on (\d{4}\.\d{2}\.\d{2}) at
\* (\d{4}) hrs" at position p
SitrepDatePatternAt(s, p) ==
    /\ LitAt(s, p, <<"S","i","t","u","a","t","i","o","n"," ","R","e","p","o","r","t"," ","o","n"," ">>)
    /\ DateAt(s, p + 20, {"."})
    /\ LitAt(s, p + 30, <<" ","a","t"," ">>)
    /\ DigitsAt(s, p + 34, 4)
    /\ LitAt(s, p + 38, <<" ","h","r","s">>)

\* pdf_extractor.extract_metadata_from_text, lines 55-69
sitrep_extract_metadata_from_text(s) ==
    LET p == FirstMatch({r \in 0..Len(s) : SitrepDatePatternAt(s, r)})
        date_str == SubSeq(s, p + 21, p + 30)
        time_str == SubSeq(s, p + 35, p + 38)
        dt == strptime(DecVal(SubSeq(date_str, 1, 4)), DecVal(SubSeq(date_str, 6, 7)),
                       DecVal(SubSeq(date_str, 9, 10)),
                       DecVal(SubSeq(time_str, 1, 2)), DecVal(SubSeq(time_str, 3, 4)))
    IN  IF p = -1 THEN [NoDates EXCEPT !.report_date_raw = Unknown]
        ELSE IF IsExc(dt)
        THEN [NoDates EXCEPT !.report_date_raw = PyStr(date_str \o <<" ">> \o time_str)]
        ELSE [NoDates EXCEPT !.report_date = PyStr(isoformat(dt)),
                             !.report_date_formatted = PyStr(strftime_date_time(dt))]

DateSeparators == {".", "-", "/"}

\* landslide_extractor line 263: "at\s*(\d{4})\s*hrs?\s*on\s*
\* (\d{4}[.\-/]\d{2}[.\-/]\d{2})" under re.IGNORECASE; the positions of the
\* time and of the date when the pattern matches at p
Pattern1TimeAt(s, p) == SkipWs(s, p + 2)
Pattern1HrsEnd(s, p) ==
    LET q == SkipWs(s, Pattern1TimeAt(s, p) + 4)
    IN  IF LitAtIgnoreCase(s, q + 2, <<"s">>) THEN q + 3 ELSE q + 2
Pattern1DateAt(s, p) == SkipWs(s, SkipWs(s, Pattern1HrsEnd(s, p)) + 2)
Pattern1At(s, p) ==
    /\ LitAtIgnoreCase(s, p, <<"a","t">>)
    /\ DigitsAt(s, Pattern1TimeAt(s, p), 4)
    /\ LitAtIgnoreCase(s, SkipWs(s, Pattern1TimeAt(s, p) + 4), <<"h","r">>)
    /\ LitAtIgnoreCase(s, SkipWs(s, Pattern1HrsEnd(s, p)), <<"o","n">>)
    /\ DateAt(s, Pattern1DateAt(s, p), DateSeparators)

\* line 279: (\d{4})[.\-/](\d{2})[.\-/](\d{2}) at position p
Pattern2At(s, p) == DateAt(s, p, DateSeparators)

\* landslide_extractor.extract_metadata_from_text, lines 262-290
landslide_extract_metadata_from_text(s) ==
    LET p == FirstMatch({r \in 0..Len(s) : Pattern1At(s, r)})
        t == Pattern1TimeAt(s, p)
        q == Pattern1DateAt(s, p)
        time_str == SubSeq(s, t + 1, t + 4)
        found == SubSeq(s, q + 1, q + 10)
        date_str == [found EXCEPT ![5] = ".", ![8] = "."]
        dt == strptime(DecVal(SubSeq(date_str, 1, 4)), DecVal(SubSeq(date_str, 6, 7)),
                       DecVal(SubSeq(date_str, 9, 10)),
                       DecVal(SubSeq(time_str, 1, 2)), DecVal(SubSeq(time_str, 3, 4)))
        head == SubSeq(s, 1, IF Len(s) < 500 THEN Len(s) ELSE 500)
        p2 == FirstMatch({r \in 0..Len(head) : Pattern2At(head, r)})
        m2 == SubSeq(head, p2 + 1, p2 + 10)
        dt2 == strptime(DecVal(SubSeq(m2, 1, 4)), DecVal(SubSeq(m2, 6, 7)),
                        DecVal(SubSeq(m2, 9, 10)), 0, 0)
    IN  IF p # -1
        THEN IF IsExc(dt)
             THEN [NoDates EXCEPT !.report_date_raw = PyStr(date_str \o <<" ">> \o time_str)]
             ELSE [NoDates EXCEPT !.report_date = PyStr(isoformat(dt)),
                                  !.report_date_formatted = PyStr(strftime_date_time(dt))]
        ELSE IF p2 = -1 THEN [NoDates EXCEPT !.report_date_raw = Unknown]
        ELSE IF IsExc(dt2) THEN [NoDates EXCEPT !.report_date_raw = Unknown]
        ELSE [NoDates EXCEPT !.report_date = PyStr(isoformat(dt2)),
                             !.report_date_formatted = PyStr(strftime_date(dt2))]

\* [A-Za-z]
IsLetter(c) ==
    \E k \in 1..Len(UpperAlpha) : UpperAlpha[k] = c \/ LowerAlpha[k] = c

\* \d{n}-[A-Za-z]{3}-\d{4} at position p
DayMonthYearAt(s, p, n) ==
    /\ p + n + 9 <= Len(s)
    /\ DigitsAt(s, p, n) /\ s[p + n + 1] = "-"
    /\ \A k \in 2..4 : IsLetter(s[p + n + k])
    /\ s[p + n + 5] = "-"
    /\ DigitsAt(s, p + n + 5, 4)

\* flood_extractor line 54: "DATE\s*:\s*(\d{1,2}-[A-Za-z]{3}-\d{4})"; the
\* position of the date when the pattern matches at p
FloodDateAt(s, p) == SkipWs(s, SkipWs(s, p + 4) + 1)
FloodDatePatternAt(s, p) ==
    /\ LitAt(s, p, <<"D","A","T","E">>)
    /\ LitAt(s, SkipWs(s, p + 4), <<":">>)
    /\ DayMonthYearAt(s, FloodDateAt(s, p), 2) \/ DayMonthYearAt(s, FloodDateAt(s, p), 1)

\* flood_extractor.extract_metadata, lines 53-62
extract_metadata(s) ==
    LET p == FirstMatch({r \in 0..Len(s) : FloodDatePatternAt(s, r)})
        q == FloodDateAt(s, p)
        n == IF DayMonthYearAt(s, q, 2) THEN 2 ELSE 1
        date_str == SubSeq(s, q + 1, q + n + 9)
        month == MonthOfAbbr(SubSeq(date_str, n + 2, n + 4))
        dt == strptime(DecVal(SubSeq(date_str, n + 6, n + 9)), month,
                       DecVal(SubSeq(date_str, 1, n)), 0, 0)
    IN  IF p = -1 THEN NoDates
        ELSE IF IsExc(dt) THEN [NoDates EXCEPT !.report_date_str = PyStr(date_str)]
        ELSE [NoDates EXCEPT !.report_date = PyStr(isoformat(dt)),
                             !.report_date_formatted = PyStr(strftime_date(dt))]

(***************************************************************************)
(* Bounds and inputs of the value-normaliser family                        *)
(***************************************************************************)
\* longest token drawn character by character
MaxTokLen == 3

\* the characters such tokens are made of
TokChars == {"1", "0", ",", "-", ".", " ", "n", "a"}

\* every string over TokChars of length at most n
ShortTokens(n) == UNION {[1..k -> TokChars] : k \in 0..n}

\* tokens of the kinds the reports hold, and the spellings of the alias tables
NamedTokens ==
    {PyStr(<<"1",",","2","3","4">>),
     PyStr(<<"-">>),
     PyStr(<<>>),
     PyStr(<<"n","a","n">>),
     PyStr(<<"N","A">>),
     PyStr(<<"N","a","N">>),
     PyStr(<<"i","n","f">>),
     PyStr(<<"1","2",".","4">>),
     PyStr(<<"7",".","5">>),
     PyStr(<<"9",".","0">>),
     PyStr(<<"1","e","3">>),
     PyStr(<<"a","b","c">>),
     PyStr(<<" ","1",",","2","0","0"," ">>),
     PyStr(<<"1","_","0","0","0">>),
     PyStr(<<"+","5">>),
     PyStr(<<"-","5">>),
     PyStr(<<"5",",","0","0","0">>),
     PyStr(<<"R","a","t","h","n","a","p","u","r","a">>),
     PyStr(<<" ","R","a","t","h","n","a","p","u","r","a"," ">>),
     PyStr(<<"R","a","t","n","a","p","u","r","a">>),
     PyStr(<<"N","u","w","a","r","a","E","l","i","y","a">>),
     PyStr(<<"N","u","w","a","r","a","e","l","i","y","a","\n">>),
     PyStr(<<"N","u","w","a","r","a"," ","E","l","i","y","a">>),
     PyStr(<<"C","o","l","o","m","b","o">>),
     PyStr(<<" ","C","o","l","o","m","b","o">>)}

\* the lists of division names a cell of a landslide table holds
DivisionLists ==
    {<<<<"E","l","l","a">>>>,
     <<<<"E","l","l","a">>, <<"B","a","d","u","l","l","a">>>>,
     <<<<"P","a","s","s","a","r","a">>, <<"E","l","l","a">>>>,
     <<<<"E","l","l","a">>, <<"B","a","d","u","l","l","a">>, <<"H","a","l","i","-","E","l","a">>>>}

\* what stands between two names of a cell
Separators == {<<","," ">>, <<" ","a","n","d"," ">>}

\* what the document prints after the names of a cell
CellArtifacts ==
    {<<>>,
     <<"D","i","v","i","s","i","o","n","a","l"," ","S","e","c","r","e","t","a","r","i","a","t">>,
     <<"(","D","S","D",")">>,
     <<"a","n","d"," ","s","u","r","r","o","u","n","d","i","n","g"," ","a","r","e","a","s">>}

\* a cell as the names, the separator before each name but the first, and
\* what follows the names
DivisionCellSpecs ==
    UNION {[names : {ns}, seps : [1..(Len(ns) - 1) -> Separators],
            artifact : CellArtifacts] : ns \in DivisionLists}

\* the text of such a cell
RECURSIVE JoinNames(_, _, _)
JoinNames(names, seps, k) ==
    IF k > Len(names) THEN <<>>
    ELSE (IF k = 1 THEN <<>> ELSE seps[k - 1]) \o names[k]
             \o JoinNames(names, seps, k + 1)
CellText(c) ==
    JoinNames(c.names, c.seps, 1)
        \o (IF c.artifact = <<>> THEN <<>> ELSE <<" ">> \o c.artifact)

\* what a table cell or a text line can be: missing, pandas' NaN, an int, a str
Values(n) ==
    {PyNone, PyNaN, PyInt(0), PyInt(7)} \cup NamedTokens
        \cup {PyStr(t) : t \in ShortTokens(n)}
        \cup {PyStr(CellText(c)) : c \in DivisionCellSpecs}

(***************************************************************************)
(* The value-normaliser family: one function applied to one token          *)
(***************************************************************************)
\* the variables of a family that is not the one being run
ValuesIdle == value = Idle /\ fn = "none" /\ result = Idle /\ again = Idle
WaterIdle ==
    /\ text = <<>> /\ lines = <<>> /\ i = 0 /\ stations = <<>>
    /\ current_basin = <<>> /\ pc = "idle" /\ origin = <<>> /\ expected = <<>>
    /\ scan = <<>>
SitrepIdle == df = <<>> /\ idx = 0 /\ districts = <<>> /\ spc = "idle"
LandslideIdle ==
    /\ tables = <<>> /\ tbl = 0 /\ ridx = 0 /\ layout = <<>>
    /\ all_warnings = <<>> /\ warnings_list = <<>> /\ district_map = <<>>
    /\ widx = 0 /\ first = <<>> /\ how = "none" /\ lpc = "idle"
MetadataIdle == mtext = <<>> /\ mfn = "idle" /\ metadata = Idle
MergeIdle ==
    /\ given = <<>> /\ heap = <<>> /\ arg = <<>> /\ dmap = <<>> /\ argi = 0
    /\ merged = Idle /\ hpc = "idle"
RefreshIdle ==
    /\ reports = <<>> /\ rpc = "idle" /\ latest_data = Idle
    /\ previous_data = Idle /\ fetched = Idle /\ session = Idle /\ files = Idle
    /\ now = 0 /\ runs = 0 /\ rlog = <<>> /\ shown = "idle" /\ atPress = Idle

InitValues ==
    /\ fam = "values"
    /\ report = Idle /\ catalog = <<>> /\ geojson = Idle
    /\ value \in Values(MaxTokLen)
    /\ fn = "none"
    /\ result = Idle
    /\ again = Idle
    /\ WaterIdle /\ SitrepIdle /\ LandslideIdle /\ MetadataIdle /\ RefreshIdle /\ MergeIdle

CleanNumericValue ==
    /\ fam = "values" /\ fn = "none"
    /\ fn' = "clean_numeric_value"
    /\ result' = clean_numeric_value(value)
    /\ UNCHANGED <<fam, joinVars, report, value, again, notValues>>

\* parse_float is given text lines; the claim adds None
ParseFloat ==
    /\ fam = "values" /\ fn = "none"
    /\ value.tag \in {"str", "None"}
    /\ fn' = "parse_float"
    /\ result' = parse_float(value)
    /\ UNCHANGED <<fam, joinVars, report, value, again, notValues>>

NormalizeDistrictName ==
    /\ fam = "values" /\ fn = "none"
    /\ fn' = "normalize_district_name"
    /\ result' = normalize_district_name(value)
    /\ UNCHANGED <<fam, joinVars, report, value, again, notValues>>

LandslideNormalizeDistrictName ==
    /\ fam = "values" /\ fn = "none"
    /\ fn' = "landslide_normalize_district_name"
    /\ result' = landslide_normalize_district_name(value)
    /\ UNCHANGED <<fam, joinVars, report, value, again, notValues>>

\* a Python list of strings
PyList(items) == [tag |-> "list", items |-> items]

ParseDivisions ==
    /\ fam = "values" /\ fn = "none"
    /\ fn' = "parse_divisions"
    /\ result' = PyList(parse_divisions(value))
    /\ UNCHANGED <<fam, joinVars, report, value, again, notValues>>

\* the canonicaliser applied to its own result
NormalizeAgain ==
    /\ fam = "values" /\ again = Idle
    /\ fn \in {"normalize_district_name", "landslide_normalize_district_name"}
    /\ again' = IF fn = "normalize_district_name"
                THEN normalize_district_name(result)
                ELSE landslide_normalize_district_name(result)
    /\ UNCHANGED <<fam, joinVars, report, value, fn, result, notValues>>

NextValues ==
    \/ CleanNumericValue
    \/ ParseFloat
    \/ NormalizeDistrictName
    \/ LandslideNormalizeDistrictName
    \/ ParseDivisions
    \/ NormalizeAgain

SpecValues == InitValues /\ [][NextValues]_vars

(***************************************************************************)
(* Bounds and inputs of the water-level family                             *)
(***************************************************************************)
\* most station blocks in a generated bulletin
MaxBlocks == 2

Hanwella == <<"H","a","n","w","e","l","l","a">>
Putupaula == <<"P","u","t","u","p","a","u","l","a">>
RB01 == <<"K","e","l","a","n","i"," ","G","a","n","g","a"," ","(","R","B"," ","0","1",")">>
RB03 == <<"K","a","l","u"," ","G","a","n","g","a"," ","(","R","B"," ","0","3",")">>
HeaderLine == <<"D","M","C">>
Rain == <<"1","2",".","4">>

\* the two kinds of station block drawn: what differs between them is the
\* tributary, the station, the unit, the values and the optional tokens
BlockKind(k) ==
    IF k = 1
    THEN [basin |-> RB01, tributary |-> KelaniGanga, station |-> Hanwella,
          unit |-> <<"m">>,
          values |-> <<<<"7",".","5">>, <<"9",".","0">>, <<"1","0",".","5">>, <<"8",".","1">>, <<"8",".","3">>>>,
          remarks |-> <<"N","o","r","m","a","l">>, trend |-> <<"F","a","l","l","i","n","g">>]
    ELSE [basin |-> RB03, tributary |-> KaluGanga, station |-> Putupaula,
          unit |-> <<"f","t">>,
          values |-> <<<<"-">>, <<"N","A">>, <<"1","0",".","5">>, <<"8",".","1">>, <<"-">>>>,
          remarks |-> <<"A","l","e","r","t">>, trend |-> <<"R","i","s","i","n","g">>]

\* the optional lines of a block, in the bulletin's column order
OptionalLines(k, o) ==
    (IF "remarks" \in o THEN <<BlockKind(k).remarks>> ELSE <<>>)
        \o (IF "trend" \in o THEN <<BlockKind(k).trend>> ELSE <<>>)
        \o (IF "rainfall" \in o THEN <<Rain>> ELSE <<>>)

\* a station block: an optional basin header, then tributary, station, unit,
\* five values and any subset of the optional lines
Blocks ==
    [header : BOOLEAN, kind : 1..2, optional : SUBSET {"remarks", "trend", "rainfall"}]

BlockLines(b) ==
    (IF b.header THEN <<BlockKind(b.kind).basin>> ELSE <<>>)
        \o <<BlockKind(b.kind).tributary, BlockKind(b.kind).station,
             BlockKind(b.kind).unit>>
        \o BlockKind(b.kind).values
        \o OptionalLines(b.kind, b.optional)

RECURSIVE BlockSeqLines(_)
BlockSeqLines(bs) ==
    IF bs = <<>> THEN <<>> ELSE BlockLines(Head(bs)) \o BlockSeqLines(Tail(bs))

\* the blocks of bs as the parser should report them, the first line of bs
\* being at line index at
RECURSIVE ExpectedFrom(_, _)
ExpectedFrom(bs, at) ==
    IF bs = <<>> THEN <<>>
    ELSE LET b == Head(bs)
             t == at + (IF b.header THEN 1 ELSE 0)
         IN  <<[tributary |-> BlockKind(b.kind).tributary,
                station |-> BlockKind(b.kind).station,
                unit |-> BlockKind(b.kind).unit,
                at |-> t]>>
             \o ExpectedFrom(Tail(bs), at + Len(BlockLines(b)))

\* the bulletins of at most n blocks
BlockSeqs(n) == UNION {[1..k -> Blocks] : k \in 1..n}

\* how the page is laid out around the data: the number of header lines,
\* whether the legend in the header names a tributary, and whether the raw
\* lines are padded with whitespace and separated by blank lines
Layouts ==
    {[header |-> MinOffset + 1, legend |-> FALSE, padded |-> FALSE],
     [header |-> MinOffset + 1, legend |-> TRUE, padded |-> TRUE],
     [header |-> MinOffset, legend |-> FALSE, padded |-> FALSE],
     [header |-> 0, legend |-> FALSE, padded |-> FALSE]}
StandardLayout == [header |-> MinOffset + 1, legend |-> FALSE, padded |-> FALSE]

HeaderLines(l) ==
    [k \in 1..l.header |-> IF l.legend /\ k = 3 THEN KelaniGanga ELSE HeaderLine]

\* the decoded text of a page with the given layout and data lines
Render(l, data) ==
    LET ls == HeaderLines(l) \o data
        raw == IF l.padded
               THEN [k \in 1..Len(ls) |-> <<" ">> \o ls[k] \o <<"\t", "\n", " ">>]
               ELSE ls
    IN  Join(raw, <<"\n">>)

\* a line that can replace a line of a well-formed bulletin
StrayLines ==
    {KelaniGanga, KaluGanga, RB03, Hanwella, <<"m">>, <<"c","m">>, Rain, Dash,
     <<"N","A">>, <<"N","o","r","m","a","l">>, <<"R","i","s","i","n","g">>, <<"P","r","e","p","a","r","e","d"," ","b","y",":"," ","D","i","r","e","c","t","o","r">>, <<"n","a","n">>,
     <<"x", Backtick>>}

\* the bulletins whose lines are then damaged: one line replaced by a stray
\* line and the text cut short
DamagedBases ==
    {<<[header |-> TRUE, kind |-> 1, optional |-> {"remarks", "trend", "rainfall"}],
       [header |-> TRUE, kind |-> 2, optional |-> {"remarks", "trend"}]>>,
     <<[header |-> FALSE, kind |-> 1, optional |-> {}],
       [header |-> FALSE, kind |-> 1, optional |-> {"rainfall"}]>>}

Damage(data, p, stray, n) ==
    SubSeq([k \in 1..Len(data) |-> IF k = p THEN stray ELSE data[k]], 1, n)

DamagedData(bases) ==
    UNION {{Damage(BlockSeqLines(bs), p, stray, n) :
                p \in 1..Len(BlockSeqLines(bs)), stray \in StrayLines,
                n \in 0..Len(BlockSeqLines(bs))} : bs \in bases}

\* the optional lines of a block in every order: two or three of the
\* remarks, the trend and the rainfall
OptionalOrders ==
    {o \in [1..2 -> {"remarks", "trend", "rainfall"}]
            \cup [1..3 -> {"remarks", "trend", "rainfall"}] :
        \A j, k \in DOMAIN o : j # k => o[j] # o[k]}

OptionalToken(kind) ==
    IF kind = "remarks" THEN BlockKind(1).remarks
    ELSE IF kind = "trend" THEN BlockKind(1).trend
    ELSE Rain

\* a bulletin of one block whose optional lines stand in the order o,
\* followed by the tributary line of a next block
ReorderedData(o) ==
    BlockLines([header |-> TRUE, kind |-> 1, optional |-> {}])
        \o [k \in DOMAIN o |-> OptionalToken(o[k])]
        \o <<KaluGanga>>

\* the inputs of parse_water_level_table: the text, and for a text built from
\* station blocks the blocks it was built from
WaterInputs(n) ==
    {[text |-> Render(l, BlockSeqLines(bs)), expected |-> ExpectedFrom(bs, l.header)] :
        l \in {StandardLayout}, bs \in BlockSeqs(n)}
    \cup {[text |-> Render(l, BlockSeqLines(bs)), expected |-> ExpectedFrom(bs, l.header)] :
        l \in Layouts, bs \in [1..1 -> Blocks]}
    \cup {[text |-> Render(StandardLayout, d), expected |-> <<>>] :
        d \in DamagedData(DamagedBases)}
    \cup {[text |-> Render(StandardLayout, ReorderedData(o)), expected |-> <<>>] :
        o \in OptionalOrders}

(***************************************************************************)
(* The water-level family: parse_water_level_table, one loop iteration per *)
(* step                                                                    *)
(***************************************************************************)
InitWater ==
    /\ fam = "water"
    /\ report = Idle /\ catalog = <<>> /\ geojson = Idle
    /\ ValuesIdle /\ SitrepIdle /\ LandslideIdle /\ MetadataIdle /\ RefreshIdle /\ MergeIdle
    /\ \E input \in WaterInputs(MaxBlocks) :
        /\ text = input.text
        /\ expected = input.expected
    /\ lines = <<>> /\ i = 0 /\ stations = <<>> /\ current_basin = <<>>
    /\ origin = <<>>
    /\ scan = [iterations |-> 0, highest |-> -1, steps |-> {}]
    /\ pc = "begin"

\* one more iteration of the while loop of lines 125-236: what it did, and
\* k, the highest index at which it read lines
Scanned(step, k) ==
    [iterations |-> scan.iterations + 1,
     highest |-> IF k > scan.highest THEN k ELSE scan.highest,
     steps |-> scan.steps \cup {step}]

\* the highest index read for a complete station whose tributary line is at
\* index t: the fifth value (line 180), or an optional line (lines 189, 203),
\* each read under its guard i < len(lines)
last_read(ls, t, s1) ==
    IF s1.i < Len(ls) THEN s1.i
    ELSE IF t + 8 < Len(ls) THEN t + 8
    ELSE t + 7

\* lines 98-124: split the text, set the default basin, find the data start
Begin ==
    /\ fam = "water" /\ pc = "begin"
    /\ lines' = SplitLines(text)
    /\ stations' = <<>>
    /\ current_basin' = default_basin
    /\ IF data_start_idx(lines') = -1
       THEN pc' = "done" /\ i' = i
       ELSE pc' = "loop" /\ i' = data_start_idx(lines')
    /\ UNCHANGED <<fam, joinVars, report, notWater, text, origin, scan, expected>>

InLoop == fam = "water" /\ pc = "loop"
AtLine == InLoop /\ i < Len(lines) /\ ~IsFooter(LineAt(lines, i))
AtTributary ==
    /\ AtLine
    /\ basin_match(LineAt(lines, i)) = <<>>
    /\ LineAt(lines, i) \in tributary_names

\* while i < len(lines) fails: return stations
LoopEnd ==
    /\ InLoop /\ i >= Len(lines)
    /\ pc' = "done"
    /\ UNCHANGED <<fam, joinVars, report, notWater, text, lines, i, stations, current_basin,
                   origin, scan, expected>>

\* a footer marker: break
Footer ==
    /\ InLoop /\ i < Len(lines) /\ IsFooter(LineAt(lines, i))
    /\ pc' = "done"
    /\ scan' = Scanned("footer", i)
    /\ UNCHANGED <<fam, joinVars, report, notWater, text, lines, i, stations, current_basin,
                   origin, expected>>

\* a river basin header: update the context
BasinHeader ==
    /\ AtLine /\ basin_match(LineAt(lines, i)) # <<>>
    /\ current_basin' = basin_match(LineAt(lines, i))
    /\ i' = i + 1
    /\ scan' = Scanned("basin", i)
    /\ UNCHANGED <<fam, joinVars, report, notWater, text, lines, stations, pc, origin, expected>>

\* not a tributary name: next line
SkipLine ==
    /\ AtLine /\ basin_match(LineAt(lines, i)) = <<>>
    /\ LineAt(lines, i) \notin tributary_names
    /\ i' = i + 1
    /\ scan' = Scanned("skip", i)
    /\ UNCHANGED <<fam, joinVars, report, notWater, text, lines, stations, current_basin, pc,
                   origin, expected>>

\* the text ends after the tributary line: break
BreakAfterTributary ==
    /\ AtTributary /\ i + 1 >= Len(lines)
    /\ i' = i + 1
    /\ pc' = "done"
    /\ scan' = Scanned("break", i)
    /\ UNCHANGED <<fam, joinVars, report, notWater, text, lines, stations, current_basin,
                   origin, expected>>

\* the text ends after the station line: break
BreakAfterStation ==
    /\ AtTributary /\ i + 1 < Len(lines) /\ i + 2 >= Len(lines)
    /\ i' = i + 2
    /\ pc' = "done"
    /\ scan' = Scanned("break", i + 1)
    /\ UNCHANGED <<fam, joinVars, report, notWater, text, lines, stations, current_basin,
                   origin, expected>>

\* a rejected unit that leaves the cursor on the tributary line
RejectUnitStays ==
    /\ AtTributary /\ i + 2 < Len(lines)
    /\ LineAt(lines, i + 2) \notin units
    /\ i' = i
    /\ scan' = Scanned("reject", i + 2)
    /\ UNCHANGED <<fam, joinVars, report, notWater, text, lines, stations, current_basin, pc,
                   origin, expected>>

\* the unit line is neither 'm' nor 'ft': continue, the cursor on that line
RejectUnit ==
    /\ AtTributary /\ i + 2 < Len(lines)
    /\ LineAt(lines, i + 2) \notin units
    /\ i' = i + 2
    /\ scan' = Scanned("reject", i + 2)
    /\ UNCHANGED <<fam, joinVars, report, notWater, text, lines, stations, current_basin, pc,
                   origin, expected>>

\* fewer than five lines follow the unit: break
BreakBeforeValues ==
    /\ AtTributary /\ i + 2 < Len(lines)
    /\ LineAt(lines, i + 2) \in units
    /\ (i + 3) + 4 >= Len(lines)
    /\ i' = i + 3
    /\ pc' = "done"
    /\ scan' = Scanned("break", i + 2)
    /\ UNCHANGED <<fam, joinVars, report, notWater, text, lines, stations, current_basin,
                   origin, expected>>

\* a complete station: five values, the optional lines, one reading appended
Station ==
    /\ AtTributary /\ i + 2 < Len(lines)
    /\ LineAt(lines, i + 2) \in units
    /\ (i + 3) + 4 < Len(lines)
    /\ \E s1 \in {Sniff1(lines, i + 8)} :
       \E s2 \in {Sniff2(lines, s1.i, s1.rainfall)} :
        /\ stations' = Append(stations, station_data(lines, i, current_basin, s1, s2))
        /\ i' = s2.i
        /\ scan' = Scanned("station", last_read(lines, i, s1))
    /\ origin' = Append(origin, i)
    /\ UNCHANGED <<fam, joinVars, report, notWater, text, lines, current_basin, pc, expected>>

\* extract_flood_data, lines 261-296: the stations grouped by basin, the
\* totals, the report returned
ExtractFloodData ==
    /\ fam = "water" /\ pc = "done"
    /\ \E basins \in {river_basins(stations)} :
        report' = [river_basins |-> basins,
                   all_stations |-> stations,
                   totals |-> flood_totals(stations, basins)]
    /\ pc' = "returned"
    /\ UNCHANGED <<fam, joinVars, notWater, text, lines, i, stations, current_basin,
                   origin, scan, expected>>

NextWater ==
    \/ Begin
    \/ LoopEnd
    \/ Footer
    \/ BasinHeader
    \/ SkipLine
    \/ BreakAfterTributary
    \/ BreakAfterStation
    \/ RejectUnit
    \/ BreakBeforeValues
    \/ Station
    \/ ExtractFloodData

SpecWater == InitWater /\ [][NextWater]_vars

(***************************************************************************)
(* The situation-report family: parse_sitrep_table, one row per step       *)
(***************************************************************************)
\* the approximate centroid of a district, and the centre of the island for
\* a name the table does not hold
DISTRICT_COORDS(name) ==
    CASE name = <<"A","m","p","a","r","a">> ->
            [lat |-> PyFloat(72917, 4), lon |-> PyFloat(81672, 3)]
      [] name = <<"A","n","u","r","a","d","h","a","p","u","r","a">> ->
            [lat |-> PyFloat(8335, 3), lon |-> PyFloat(804108, 4)]
      [] name = <<"B","a","d","u","l","l","a">> ->
            [lat |-> PyFloat(69934, 4), lon |-> PyFloat(81055, 3)]
      [] name = <<"B","a","t","t","i","c","a","l","o","a">> ->
            [lat |-> PyFloat(7731, 3), lon |-> PyFloat(816747, 4)]
      [] name = <<"C","o","l","o","m","b","o">> ->
            [lat |-> PyFloat(69271, 4), lon |-> PyFloat(798612, 4)]
      [] name = <<"G","a","l","l","e">> ->
            [lat |-> PyFloat(60535, 4), lon |-> PyFloat(80221, 3)]
      [] name = <<"G","a","m","p","a","h","a">> ->
            [lat |-> PyFloat(70873, 4), lon |-> PyFloat(800144, 4)]
      [] name = <<"H","a","m","b","a","n","t","o","t","a">> ->
            [lat |-> PyFloat(61429, 4), lon |-> PyFloat(811212, 4)]
      [] name = <<"J","a","f","f","n","a">> ->
            [lat |-> PyFloat(96615, 4), lon |-> PyFloat(800255, 4)]
      [] name = <<"K","a","l","u","t","a","r","a">> ->
            [lat |-> PyFloat(65854, 4), lon |-> PyFloat(799607, 4)]
      [] name = <<"K","a","n","d","y">> ->
            [lat |-> PyFloat(72906, 4), lon |-> PyFloat(806337, 4)]
      [] name = <<"K","e","g","a","l","l","e">> ->
            [lat |-> PyFloat(72513, 4), lon |-> PyFloat(803464, 4)]
      [] name = <<"K","i","l","i","n","o","c","h","c","h","i">> ->
            [lat |-> PyFloat(93803, 4), lon |-> PyFloat(80377, 3)]
      [] name = <<"K","u","r","u","n","e","g","a","l","a">> ->
            [lat |-> PyFloat(74863, 4), lon |-> PyFloat(803647, 4)]
      [] name = <<"M","a","n","n","a","r">> ->
            [lat |-> PyFloat(8981, 3), lon |-> PyFloat(799044, 4)]
      [] name = <<"M","a","t","a","l","e">> ->
            [lat |-> PyFloat(74675, 4), lon |-> PyFloat(806234, 4)]
      [] name = <<"M","a","t","a","r","a">> ->
            [lat |-> PyFloat(59549, 4), lon |-> PyFloat(80555, 3)]
      [] name = <<"M","o","n","a","r","a","g","a","l","a">> ->
            [lat |-> PyFloat(68728, 4), lon |-> PyFloat(813507, 4)]
      [] name = <<"M","u","l","l","a","i","t","i","v","u">> ->
            [lat |-> PyFloat(92671, 4), lon |-> PyFloat(808142, 4)]
      [] name = <<"N","u","w","a","r","a"," ","E","l","i","y","a">> ->
            [lat |-> PyFloat(69497, 4), lon |-> PyFloat(807891, 4)]
      [] name = <<"P","o","l","o","n","n","a","r","u","w","a">> ->
            [lat |-> PyFloat(79403, 4), lon |-> PyFloat(810188, 4)]
      [] name = <<"P","u","t","t","a","l","a","m">> ->
            [lat |-> PyFloat(80362, 4), lon |-> PyFloat(798283, 4)]
      [] name = <<"R","a","t","n","a","p","u","r","a">> ->
            [lat |-> PyFloat(66828, 4), lon |-> PyFloat(803992, 4)]
      [] name = <<"R","a","t","h","n","a","p","u","r","a">> ->
            [lat |-> PyFloat(66828, 4), lon |-> PyFloat(803992, 4)]
      [] name = <<"T","r","i","n","c","o","m","a","l","e","e">> ->
            [lat |-> PyFloat(85874, 4), lon |-> PyFloat(812152, 4)]
      [] name = <<"V","a","v","u","n","i","y","a">> ->
            [lat |-> PyFloat(87514, 4), lon |-> PyFloat(804971, 4)]
      [] OTHER -> [lat |-> PyFloat(78731, 4), lon |-> PyFloat(807718, 4)]

\* row.get(cols[k], default): the cell of column k (0-based) of the row r,
\* and the default when the table has no such column (col_map holds None)
Cell(r, k, default) == IF k < Len(r) THEN r[k + 1] ELSE default

\* the names under which a row is no district: the header and the total row
sitrep_skip_names ==
    {<<"n","o","n","e">>, <<"t","o","t","a","l">>, <<"d","i","s","t","r","i","c","t","s">>, <<>>}

\* the canonical district name of a row
district_name(r) == normalize_district_name(Cell(r, 1, PyNone)).s

\* a record whose counts are read one column to the right
district_data_shifted(r) ==
    [district |-> district_name(r),
     lat |-> DISTRICT_COORDS(district_name(r)).lat,
     lon |-> DISTRICT_COORDS(district_name(r)).lon,
     families_affected |-> clean_numeric_value(Cell(r, 3, PyInt(0))),
     people_affected |-> clean_numeric_value(Cell(r, 4, PyInt(0))),
     deaths |-> clean_numeric_value(Cell(r, 5, PyInt(0))),
     missing |-> clean_numeric_value(Cell(r, 6, PyInt(0))),
     houses_fully_damaged |-> clean_numeric_value(Cell(r, 7, PyInt(0))),
     houses_partially_damaged |-> clean_numeric_value(Cell(r, 8, PyInt(0))),
     safety_centers |-> clean_numeric_value(Cell(r, 9, PyInt(0))),
     families_displaced |-> clean_numeric_value(Cell(r, 10, PyInt(0))),
     people_displaced |-> clean_numeric_value(Cell(r, 11, PyInt(0)))]

\* lines 172-185: the record of a row
district_data(r) ==
    [district |-> district_name(r),
     lat |-> DISTRICT_COORDS(district_name(r)).lat,
     lon |-> DISTRICT_COORDS(district_name(r)).lon,
     families_affected |-> clean_numeric_value(Cell(r, 2, PyInt(0))),
     people_affected |-> clean_numeric_value(Cell(r, 3, PyInt(0))),
     deaths |-> clean_numeric_value(Cell(r, 4, PyInt(0))),
     missing |-> clean_numeric_value(Cell(r, 5, PyInt(0))),
     houses_fully_damaged |-> clean_numeric_value(Cell(r, 6, PyInt(0))),
     houses_partially_damaged |-> clean_numeric_value(Cell(r, 7, PyInt(0))),
     safety_centers |-> clean_numeric_value(Cell(r, 8, PyInt(0))),
     families_displaced |-> clean_numeric_value(Cell(r, 9, PyInt(0))),
     people_displaced |-> clean_numeric_value(Cell(r, 10, PyInt(0)))]

\* most rows of a generated table
MaxRows == 4

\* the cells a numeric column can hold
NumericCells ==
    {PyStr(<<"1",",","2","3","4">>),
     PyStr(<<"-">>),
     PyStr(<<>>),
     PyNone,
     PyStr(<<"n","a","n">>),
     PyStr(<<"-","5">>),
     PyStr(<<"1","2">>),
     PyStr(<<" ","7"," ">>),
     PyStr(<<"a","b","c">>),
     PyStr(<<"1",".","5">>)}

\* the cells the district column can hold
DistrictCells ==
    {PyStr(<<"C","o","l","o","m","b","o">>),
     PyStr(<<" ","R","a","t","h","n","a","p","u","r","a"," ">>),
     PyStr(<<"T","o","t","a","l">>),
     PyStr(<<"T","O","T","A","L">>),
     PyNone,
     PyStr(<<>>),
     PyStr(<<"1","2">>),
     PyStr(<<"D","i","s","t","r","i","c","t","s">>),
     PyStr(<<"N","o","n","e">>)}

\* a row of twelve cells: the ordinal, the district, the nine counts and a
\* column beyond the ones the parser reads
FullRow(d) ==
    <<PyStr(<<"1">>), d, PyStr(<<"1","0">>), PyStr(<<"2","0">>), PyStr(<<"0">>), PyStr(<<"-">>), PyStr(<<"1">>), PyStr(<<"2">>), PyStr(<<"3">>), PyStr(<<"4">>), PyStr(<<"5">>), PyStr(<<"n","o","t","e">>)>>

\* the row of Colombo as a report prints it
ColomboRow ==
    <<PyStr(<<"3">>), PyStr(<<"C","o","l","o","m","b","o">>), PyStr(<<"1",",","2","0","0">>), PyStr(<<"5",",","0","0","0">>), PyStr(<<"2">>), PyStr(<<"0">>), PyStr(<<"1","0">>), PyStr(<<"2","5">>), PyStr(<<"4">>), PyStr(<<"3","0","0">>), PyStr(<<"9","0","0">>)>>

\* the two header rows of the report's table
HeaderRow1 ==
    <<PyStr(<<"N","o",".">>), PyStr(<<"D","i","s","t","r","i","c","t","s">>), PyStr(<<"A","f","f","e","c","t","e","d">>), PyStr(<<>>), PyStr(<<"D","e","a","t","h","s">>), PyStr(<<"M","i","s","s","i","n","g">>), PyStr(<<"H","o","u","s","e","s"," ","D","a","m","a","g","e","d">>), PyStr(<<>>), PyStr(<<"S","a","f","e","t","y"," ","C","e","n","t","e","r","s">>), PyStr(<<"D","i","s","p","l","a","c","e","d">>), PyStr(<<>>), PyStr(<<"R","e","m","a","r","k","s">>)>>
HeaderRow2 ==
    <<PyNone, PyNone, PyStr(<<"F","a","m","i","l","i","e","s">>), PyStr(<<"P","e","o","p","l","e">>), PyNone, PyNone, PyStr(<<"F","u","l","l","y">>), PyStr(<<"P","a","r","t","i","a","l","l","y">>), PyNone, PyStr(<<"F","a","m","i","l","i","e","s">>), PyStr(<<"P","e","o","p","l","e">>), PyNone>>

\* the rows drawn at each index of the table: header rows or a district at
\* the first two, a district row with one count cell replaced at the third,
\* a district or the total below
RowsAt(k) ==
    IF k = 1 THEN {HeaderRow1, FullRow(PyStr(<<"G","a","l","l","e">>))}
    ELSE IF k = 2 THEN {HeaderRow2, FullRow(PyStr(<<"K","a","n","d","y">>))}
    ELSE IF k = 3
    THEN {[FullRow(d) EXCEPT ![p] = c] :
              d \in DistrictCells, p \in 3..11, c \in NumericCells}
    ELSE {FullRow(PyStr(<<"T","o","t","a","l">>)), FullRow(PyStr(<<"M","a","t","a","r","a">>))}

RECURSIVE RowSeqs(_)
RowSeqs(n) ==
    IF n = 0 THEN {<<>>}
    ELSE {Append(rs, r) : rs \in RowSeqs(n - 1), r \in RowsAt(n)}

\* the number of columns of a generated table: the report's, and tables
\* with fewer or more columns
ColumnCounts == {1, 2, 5, 11, 12}

Truncate(rs, n) == [k \in 1..Len(rs) |-> SubSeq(rs[k], 1, n)]

\* the DataFrames given to parse_sitrep_table
SitrepTables(n) ==
    {[ncols |-> 11, rows |-> Truncate(rs, 11)] :
        rs \in UNION {RowSeqs(k) : k \in 0..n}}
    \cup {[ncols |-> c, rows |-> Truncate(rs, c)] :
        c \in ColumnCounts, rs \in {<<HeaderRow1, HeaderRow2, FullRow(d)>> : d \in DistrictCells}}
    \cup {[ncols |-> 11, rows |-> rs] :
        rs \in {<<HeaderRow1, HeaderRow2, ColomboRow>>,
                <<HeaderRow1, HeaderRow2, FullRow(PyStr(<<"K","a","n","d","y">>)), ColomboRow>>,
                <<HeaderRow1, HeaderRow2, FullRow(PyStr(<<"C","o","l","o","m","b","o">>)), ColomboRow>>}}

InitSitrep ==
    /\ fam = "sitrep"
    /\ report = Idle /\ catalog = <<>> /\ geojson = Idle
    /\ ValuesIdle /\ WaterIdle /\ LandslideIdle /\ MetadataIdle /\ RefreshIdle /\ MergeIdle
    /\ df \in SitrepTables(MaxRows) \cup {PyNone}
    /\ idx = 0
    /\ districts = <<>>
    /\ spc = "rows"

\* extract_sitrep_data, lines 223-225: no table was found in the document
MissingTable ==
    /\ fam = "sitrep" /\ spc = "rows" /\ df = PyNone
    /\ report' = PyExc("ValueError")
    /\ spc' = "raised"
    /\ UNCHANGED <<fam, joinVars, notSitrep, df, idx, districts>>

AtRow == fam = "sitrep" /\ spc = "rows" /\ df # PyNone /\ idx < Len(df.rows)

\* line 159: the first two rows are the header
SkipHeaderRow ==
    /\ AtRow /\ idx < 2
    /\ idx' = idx + 1
    /\ UNCHANGED <<fam, joinVars, report, notSitrep, df, districts, spc>>

\* line 166: no district name, or the name of a header or total row
SkipRow ==
    /\ AtRow /\ idx >= 2
    /\ \E name \in {district_name(df.rows[idx + 1])} :
        name = <<>> \/ Lower(name) \in sitrep_skip_names
    /\ idx' = idx + 1
    /\ UNCHANGED <<fam, joinVars, report, notSitrep, df, districts, spc>>

\* lines 170-187: a district row, its record appended
AppendDistrict ==
    /\ AtRow /\ idx >= 2
    /\ \E name \in {district_name(df.rows[idx + 1])} :
        name # <<>> /\ Lower(name) \notin sitrep_skip_names
    /\ \E d \in {district_data(df.rows[idx + 1])} :
        districts' = Append(districts, d)
    /\ idx' = idx + 1
    /\ UNCHANGED <<fam, joinVars, report, notSitrep, df, spc>>

\* line 189: return districts
ReturnDistricts ==
    /\ fam = "sitrep" /\ spc = "rows" /\ df # PyNone /\ idx >= Len(df.rows)
    /\ spc' = "done"
    /\ UNCHANGED <<fam, joinVars, report, notSitrep, df, idx, districts>>

\* extract_sitrep_data, lines 230-237: the totals, the report returned
ExtractSitrepData ==
    /\ fam = "sitrep" /\ spc = "done"
    /\ report' = [districts |-> districts, totals |-> calculate_totals(districts)]
    /\ spc' = "returned"
    /\ UNCHANGED <<fam, joinVars, notSitrep, df, idx, districts>>

\* pdf_extractor.convert_to_geojson applied to the report; the catalog is
\* the one the dashboard holds, which the function is not given
ConvertToGeojson ==
    /\ fam = "sitrep" /\ spc = "returned" /\ geojson = Idle
    /\ catalog' \in Catalogs
    /\ geojson' = convert_to_geojson(report)
    /\ UNCHANGED <<fam, report, notSitrep, sitrepVars>>

NextSitrep ==
    \/ MissingTable
    \/ SkipHeaderRow
    \/ SkipRow
    \/ AppendDistrict
    \/ ReturnDistricts
    \/ ExtractSitrepData
    \/ ConvertToGeojson

SpecSitrep == InitSitrep /\ [][NextSitrep]_vars

(***************************************************************************)
(* Bounds and inputs of the landslide family                               *)
(***************************************************************************)
\* most rows of a generated table
MaxTableRows == 2

\* the cells of the three level columns of a row
LevelCells ==
    {<<PyStr(<<"E","l","l","a">>), PyStr(<<"-">>), PyStr(<<"-">>)>>,
     <<PyStr(<<"E","l","l","a",","," ","E","l","l","a">>), PyStr(<<"-">>), PyStr(<<"-">>)>>,
     <<PyStr(<<"-">>), PyStr(<<"P","a","s","s","a","r","a">>), PyStr(<<"-">>)>>,
     <<PyStr(<<"E","l","l","a">>), PyStr(<<"-">>), PyStr(<<"P","a","s","s","a","r","a","\n","(","D","S","D",")">>)>>,
     <<PyStr(<<"-">>), PyStr(<<"-">>), PyStr(<<"-">>)>>,
     <<PyStr(<<"E","l","l","a",","," ","P","a","s","s","a","r","a"," ","a","n","d"," ","H","a","l","i","-","E","l","a">>), PyNone, PyStr(<<"E","l","l","a">>)>>,
     <<PyStr(<<"P","a","s","s","a","r","a">>), PyStr(<<"E","l","l","a">>), PyStr(<<"-">>)>>}

\* the cells of the district column
WarningDistrictCells ==
    {PyStr(<<"B","a","d","u","l","l","a">>), PyStr(<<"K","a","n","d","y">>), PyStr(<<"N","u","w","a","r","a","e","l","i","y","a">>), PyStr(<<"N","u","w","a","r","a"," ","E","l","i","y","a">>), PyStr(<<"T","o","t","a","l">>), PyNone}

\* a row as the four cells district, level 1, level 2, level 3
WarningRows == {<<d>> \o l : d \in WarningDistrictCells, l \in LevelCells}

\* the rows drawn below the first row of a table
LaterRows ==
    {<<PyStr(<<"B","a","d","u","l","l","a">>)>> \o l : l \in {<<PyStr(<<"E","l","l","a">>), PyStr(<<"-">>), PyStr(<<"-">>)>>, <<PyStr(<<"E","l","l","a",","," ","E","l","l","a">>), PyStr(<<"-">>), PyStr(<<"-">>)>>, <<PyStr(<<"E","l","l","a">>), PyStr(<<"-">>), PyStr(<<"P","a","s","s","a","r","a","\n","(","D","S","D",")">>)>>}}
    \cup {<<PyStr(<<"K","a","n","d","y">>), PyStr(<<"-">>), PyStr(<<"E","l","l","a">>), PyStr(<<"-">>)>>, <<PyStr(<<"D","i","s","t","r","i","c","t">>), PyStr(<<"L","e","v","e","l"," ","1">>), PyStr(<<"L","e","v","e","l"," ","2">>), PyStr(<<"L","e","v","e","l"," ","3">>)>>, <<PyStr(<<"2">>), PyStr(<<"-">>), PyStr(<<"-">>), PyStr(<<"-">>)>>}

RECURSIVE WarningRowSeqs(_)
WarningRowSeqs(n) ==
    IF n = 1 THEN {<<r>> : r \in WarningRows}
    ELSE {Append(rs, r) : rs \in WarningRowSeqs(n - 1), r \in LaterRows}

\* how a page lays the four cells of a row out in a table: the headers of
\* its columns, and for each column the cell it holds (0 for the row's
\* ordinal)
PageLayouts ==
    {[columns |-> <<<<"D","i","s","t","r","i","c","t">>, <<"L","e","v","e","l"," ","1"," ","(","Y","e","l","l","o","w",")">>, <<"L","e","v","e","l"," ","2"," ","(","A","m","b","e","r",")">>, <<"L","e","v","e","l"," ","3"," ","(","R","e","d",")">>>>,
      cells |-> <<1, 2, 3, 4>>],
     [columns |-> <<<<"N","o">>, <<"D","i","s","t","r","i","c","t">>, <<"R","e","d">>, <<"A","m","b","e","r">>, <<"Y","e","l","l","o","w">>>>,
      cells |-> <<0, 1, 4, 3, 2>>],
     [columns |-> <<<<"C","o","l","0">>, <<"C","o","l","1">>, <<"C","o","l","2">>, <<"C","o","l","3">>, <<"C","o","l","4">>>>,
      cells |-> <<0, 1, 2, 3, 4>>],
     [columns |-> <<<<"C","o","l","0">>, <<"C","o","l","1">>, <<"C","o","l","2">>, <<"C","o","l","3">>>>,
      cells |-> <<1, 2, 3, 4>>],
     [columns |-> <<<<"C","o","l","0">>, <<"C","o","l","1">>, <<"C","o","l","2">>, <<"C","o","l","3">>>>,
      cells |-> <<0, 1, 2, 3>>],
     [columns |-> <<<<"C","o","l","0">>, <<"C","o","l","1">>, <<"C","o","l","2">>>>,
      cells |-> <<1, 2, 3>>],
     [columns |-> <<<<"C","o","l","0">>>>,
      cells |-> <<1>>]}
NamedLayout ==
    [columns |-> <<<<"D","i","s","t","r","i","c","t">>, <<"L","e","v","e","l"," ","1"," ","(","Y","e","l","l","o","w",")">>, <<"L","e","v","e","l"," ","2"," ","(","A","m","b","e","r",")">>, <<"L","e","v","e","l"," ","3"," ","(","R","e","d",")">>>>,
     cells |-> <<1, 2, 3, 4>>]

\* the table of a page: the rows laid out, the ordinal of a row its number
PageTable(l, rs) ==
    [columns |-> l.columns,
     rows |-> [k \in 1..Len(rs) |->
                  [c \in 1..Len(l.cells) |->
                      IF l.cells[c] = 0 THEN PyStr(NatStr(k)) ELSE rs[k][l.cells[c]]]]]

\* the tables of a document: one table of any layout, or two pages of one
\* row each
LandslideDocuments(n) ==
    {<<PageTable(l, rs)>> :
        l \in PageLayouts, rs \in UNION {WarningRowSeqs(k) : k \in 1..n}}
    \cup {<<PageTable(NamedLayout, <<r1>>), PageTable(NamedLayout, <<r2>>)>> :
        r1 \in WarningRows, r2 \in LaterRows}

(***************************************************************************)
(* The landslide family: the tables parsed row by row, the records merged  *)
(* one by one, as extract_landslide_data does; then the merge applied to   *)
(* the same records doubled or reversed                                    *)
(***************************************************************************)
NoLayout ==
    [district_col |-> -1, level_1 |-> -1, level_2 |-> -1, level_3 |-> -1,
     by |-> "none"]

InitLandslide ==
    /\ fam = "landslide"
    /\ report = Idle /\ catalog = <<>> /\ geojson = Idle
    /\ ValuesIdle /\ WaterIdle /\ SitrepIdle /\ MetadataIdle /\ RefreshIdle /\ MergeIdle
    /\ tables \in LandslideDocuments(MaxTableRows)
    /\ tbl = 1 /\ ridx = 0 /\ layout = NoLayout
    /\ all_warnings = <<>> /\ warnings_list = <<>> /\ district_map = <<>>
    /\ widx = 0 /\ first = <<>> /\ how = "none"
    /\ lpc = "table"

AtTable == fam = "landslide" /\ lpc = "table" /\ tbl <= Len(tables)

\* line 157: fewer than two columns, no warnings
TooFewColumns ==
    /\ AtTable /\ Len(tables[tbl].columns) < 2
    /\ tbl' = tbl + 1
    /\ UNCHANGED <<fam, joinVars, report, notLandslide, tables, ridx, layout, all_warnings,
                   warnings_list, district_map, widx, first, how, lpc>>

\* line 201: no district column found, no warnings
NoDistrictColumn ==
    /\ AtTable /\ Len(tables[tbl].columns) >= 2
    /\ \E lay \in {column_layout(tables[tbl])} : lay.district_col = -1
    /\ tbl' = tbl + 1
    /\ UNCHANGED <<fam, joinVars, report, notLandslide, tables, ridx, layout, all_warnings,
                   warnings_list, district_map, widx, first, how, lpc>>

\* lines 162-199: the columns found, by their headers or by position
DetectColumns ==
    /\ AtTable /\ Len(tables[tbl].columns) >= 2
    /\ \E lay \in {column_layout(tables[tbl])} :
        /\ lay.district_col # -1
        /\ layout' = lay
    /\ ridx' = 0
    /\ lpc' = "rows"
    /\ UNCHANGED <<fam, joinVars, report, notLandslide, tables, tbl, all_warnings, warnings_list,
                   district_map, widx, first, how>>

AtWarningRow ==
    fam = "landslide" /\ lpc = "rows" /\ ridx < Len(tables[tbl].rows)

\* lines 215-220: a header, total or ordinal row
SkipWarningRow ==
    /\ AtWarningRow
    /\ \E name \in {warning_district(tables[tbl], tables[tbl].rows[ridx + 1], layout)} :
        IsSkippedRow(name)
    /\ ridx' = ridx + 1
    /\ UNCHANGED <<fam, joinVars, report, notLandslide, tables, tbl, layout, all_warnings,
                   warnings_list, district_map, widx, first, how, lpc>>

\* lines 223-249: the record of a district row appended
AppendWarning ==
    /\ AtWarningRow
    /\ \E name \in {warning_district(tables[tbl], tables[tbl].rows[ridx + 1], layout)} :
        /\ ~IsSkippedRow(name)
        /\ \E l1 \in {level_divs(tables[tbl], tables[tbl].rows[ridx + 1], layout.level_1)} :
           \E l2 \in {level_divs(tables[tbl], tables[tbl].rows[ridx + 1], layout.level_2)} :
           \E l3 \in {level_divs(tables[tbl], tables[tbl].rows[ridx + 1], layout.level_3)} :
            all_warnings' = Append(all_warnings, district_warning(name, l1, l2, l3))
    /\ ridx' = ridx + 1
    /\ UNCHANGED <<fam, joinVars, report, notLandslide, tables, tbl, layout, warnings_list,
                   district_map, widx, first, how, lpc>>

\* line 251: the table's warnings returned, the next table
EndOfTable ==
    /\ fam = "landslide" /\ lpc = "rows" /\ ridx >= Len(tables[tbl].rows)
    /\ tbl' = tbl + 1
    /\ lpc' = "table"
    /\ UNCHANGED <<fam, joinVars, report, notLandslide, tables, ridx, layout, all_warnings,
                   warnings_list, district_map, widx, first, how>>

\* line 375: merge_district_warnings(all_warnings)
StartMerge ==
    /\ fam = "landslide" /\ lpc = "table" /\ tbl > Len(tables)
    /\ warnings_list' = all_warnings
    /\ district_map' = <<>>
    /\ widx' = 0
    /\ lpc' = "merge"
    /\ UNCHANGED <<fam, joinVars, report, notLandslide, tables, tbl, ridx, layout, all_warnings,
                   first, how>>

AtWarning == fam = "landslide" /\ lpc = "merge" /\ widx < Len(warnings_list)

\* line 347: the first record of a district, copied
MergeNew ==
    /\ AtWarning
    /\ IndexOf(district_map, warnings_list[widx + 1].district) = 0
    /\ district_map' = Append(district_map, warnings_list[widx + 1])
    /\ widx' = widx + 1
    /\ UNCHANGED <<fam, joinVars, report, notLandslide, tables, tbl, ridx, layout, all_warnings,
                   warnings_list, first, how, lpc>>

\* lines 322-345: another record of a district, its divisions united with
\* the ones held and the derived fields computed again
MergeExisting ==
    /\ AtWarning
    /\ \E j \in {IndexOf(district_map, warnings_list[widx + 1].district)} :
       \E w \in {warnings_list[widx + 1]} :
        /\ j # 0
        /\ \E o1 \in Orders(Range(district_map[j].level_1_divisions) \cup Range(w.level_1_divisions)) :
           \E o2 \in Orders(Range(district_map[j].level_2_divisions) \cup Range(w.level_2_divisions)) :
           \E o3 \in Orders(Range(district_map[j].level_3_divisions) \cup Range(w.level_3_divisions)) :
            district_map' = [district_map EXCEPT ![j] = merged_warning(@, o1, o2, o3)]
    /\ widx' = widx + 1
    /\ UNCHANGED <<fam, joinVars, report, notLandslide, tables, tbl, ridx, layout, all_warnings,
                   warnings_list, first, how, lpc>>

\* line 349: the merged records returned
EndMerge ==
    /\ fam = "landslide" /\ lpc = "merge" /\ widx >= Len(warnings_list)
    /\ IF how = "none"
       THEN first' = district_map /\ lpc' = "merged"
       ELSE first' = first /\ lpc' = "remerged"
    /\ UNCHANGED <<fam, joinVars, report, notLandslide, tables, tbl, ridx, layout, all_warnings,
                   warnings_list, district_map, widx, how>>

\* extract_landslide_data, lines 377-384: the totals of the merged records,
\* the report returned
ExtractLandslideData ==
    /\ fam = "landslide" /\ lpc = "merged" /\ report = Idle
    /\ report' = [districts |-> first, totals |-> landslide_calculate_totals(first)]
    /\ UNCHANGED <<fam, joinVars, notLandslide, landslideVars>>

\* landslide_extractor.convert_to_geojson applied to the report and a
\* catalog
LandslideConvertToGeojson ==
    /\ fam = "landslide" /\ lpc = "merged" /\ report # Idle /\ geojson = Idle
    /\ \E districts_geojson \in Catalogs :
        /\ catalog' = districts_geojson
        /\ geojson' = landslide_convert_to_geojson(report, districts_geojson)
    /\ UNCHANGED <<fam, report, notLandslide, landslideVars>>

Reverse(s) == [k \in 1..Len(s) |-> s[Len(s) + 1 - k]]

\* merge_district_warnings applied to the same records, each given twice
MergeDoubled ==
    /\ fam = "landslide" /\ lpc = "merged" /\ report = Idle
    /\ warnings_list' = all_warnings \o all_warnings
    /\ district_map' = <<>>
    /\ widx' = 0
    /\ how' = "doubled"
    /\ lpc' = "merge"
    /\ UNCHANGED <<fam, joinVars, report, notLandslide, tables, tbl, ridx, layout, all_warnings,
                   first>>

\* merge_district_warnings applied to the same records in the reverse order
MergeReversed ==
    /\ fam = "landslide" /\ lpc = "merged" /\ report = Idle
    /\ warnings_list' = Reverse(all_warnings)
    /\ district_map' = <<>>
    /\ widx' = 0
    /\ how' = "reversed"
    /\ lpc' = "merge"
    /\ UNCHANGED <<fam, joinVars, report, notLandslide, tables, tbl, ridx, layout, all_warnings,
                   first>>

NextLandslide ==
    \/ TooFewColumns
    \/ NoDistrictColumn
    \/ DetectColumns
    \/ SkipWarningRow
    \/ AppendWarning
    \/ EndOfTable
    \/ StartMerge
    \/ MergeNew
    \/ MergeExisting
    \/ EndMerge
    \/ ExtractLandslideData
    \/ LandslideConvertToGeojson
    \/ MergeDoubled
    \/ MergeReversed

SpecLandslide == InitLandslide /\ [][NextLandslide]_vars

(***************************************************************************)
(* The metadata family: one extractor applied to one text                  *)
(***************************************************************************)
\* dates as the situation report prints them, valid, out of range and malformed
DottedDates ==
    {<<"2","0","2","5",".","1","2",".","0","7">>,
     <<"2","0","2","4",".","0","2",".","2","9">>,
     <<"2","0","2","5",".","0","2",".","2","9">>,
     <<"2","0","2","5",".","1","3",".","0","1">>,
     <<"2","0","2","5",".","0","0",".","1","0">>,
     <<"0","0","0","0",".","0","1",".","0","1">>,
     <<"2","0","2","5",".","0","4",".","3","1">>,
     <<"2","0","2","5","-","1","2","-","0","7">>,
     <<"2","0","2","5","/","1","2","-","0","7">>,
     <<"2","0","2","5",".","1",".","0","7">>}

\* times of day, valid, out of range and malformed
HeaderTimes ==
    {<<"1","2","0","0">>,
     <<"2","4","6","0">>,
     <<"2","4","0","0">>,
     <<"0","9","5","9">>,
     <<"1","2","0">>}

\* dates as the landslide bulletin prints them
LandslideDates ==
    {<<"2","0","2","5",".","0","1",".","1","5">>,
     <<"2","0","2","5","-","0","1","-","1","5">>,
     <<"2","0","2","5","/","0","2","/","3","0">>,
     <<"2","0","2","5",".","1",".","1","5">>,
     <<"0","0","0","0",".","0","1",".","1","5">>}

\* dates as the water-level bulletin prints them
FloodDates ==
    {<<"7","-","D","e","c","-","2","0","2","5">>,
     <<"0","7","-","D","E","C","-","2","0","2","5">>,
     <<"3","1","-","F","e","b","-","2","0","2","5">>,
     <<"0","-","J","a","n","-","2","0","2","5">>,
     <<"3","2","-","J","a","n","-","2","0","2","5">>,
     <<"1","2","3","-","D","e","c","-","2","0","2","5">>,
     <<"7","-","D","e","z","-","2","0","2","5">>,
     <<"7","-","D","e","c","-","0","0","0","0">>,
     <<"2","9","-","f","e","b","-","2","0","2","4">>,
     <<"2","9","-","F","e","b","-","2","0","2","5">>,
     <<"7","-","1","2","-","2","0","2","5">>,
     <<"7","-","D","e","c","-","2","0","2","5","5">>}

\* texts without the header of any family
OtherTexts ==
    {<<>>,
     <<"n","o"," ","d","a","t","e"," ","g","i","v","e","n">>,
     <<"R","e","p","o","r","t"," ","o","f"," ","2","0","2","5",".","1","2",".","0","7">>,
     <<"R","e","p","o","r","t"," ","o","f"," ","2","0","2","5",".","1","2",".","3","2">>,
     <<"d","a","t","e",":"," ","7","-","D","e","c","-","2","0","2","5">>}

\* the header line of a situation report
SitrepHeaders ==
    {<<"S","i","t","u","a","t","i","o","n"," ","R","e","p","o","r","t"," ","o","n"," ">> \o d \o <<" ","a","t"," ">> \o t \o tail :
        d \in DottedDates, t \in HeaderTimes, tail \in {<<" ","h","r","s">>, <<" ","h","r">>}}

\* the header line of a landslide bulletin
LandslideHeaders ==
    {<<"R","e","p","o","r","t"," ">> \o a \o t \o h \o o \o d :
        a \in {<<"a","t"," ">>, <<"A","T">>, <<"t"," ">>},
        t \in {<<"1","6","0","0">>, <<"2","5","0","0">>},
        h \in {<<"h","r","s"," ">>, <<"h","r">>, <<"H","r","s","\n">>, <<"h","o","u","r","s"," ">>},
        o \in {<<"o","n"," ">>, <<"O","N">>, <<"i","n"," ">>},
        d \in LandslideDates}

\* the date line of a water-level bulletin
FloodHeaders ==
    {<<"D","A","T","E">> \o c \o d :
        c \in {<<" ",":"," ">>, <<":">>, <<"\t",":","\n">>, <<" ">>}, d \in FloodDates}

\* the texts given to the extractors: a header or another text, at the
\* start of the text or below a first line
MetadataTexts ==
    {p \o h \o <<"\n","C","o","l","o","m","b","o">> :
        p \in {<<>>, <<"D","M","C","\n">>},
        h \in SitrepHeaders \cup LandslideHeaders \cup FloodHeaders \cup OtherTexts}

InitMetadata ==
    /\ fam = "metadata"
    /\ report = Idle /\ catalog = <<>> /\ geojson = Idle
    /\ ValuesIdle /\ WaterIdle /\ SitrepIdle /\ LandslideIdle /\ RefreshIdle /\ MergeIdle
    /\ mtext \in MetadataTexts
    /\ mfn = "none"
    /\ metadata = Idle

\* pdf_extractor.extract_metadata_from_text
SitrepExtractMetadata ==
    /\ fam = "metadata" /\ mfn = "none"
    /\ mfn' = "sitrep"
    /\ metadata' = sitrep_extract_metadata_from_text(mtext)
    /\ UNCHANGED <<fam, joinVars, report, notMetadata, mtext>>

\* landslide_extractor.extract_metadata_from_text
LandslideExtractMetadata ==
    /\ fam = "metadata" /\ mfn = "none"
    /\ mfn' = "landslide"
    /\ metadata' = landslide_extract_metadata_from_text(mtext)
    /\ UNCHANGED <<fam, joinVars, report, notMetadata, mtext>>

\* flood_extractor.extract_metadata
ExtractMetadata ==
    /\ fam = "metadata" /\ mfn = "none"
    /\ mfn' = "water"
    /\ metadata' = extract_metadata(mtext)
    /\ UNCHANGED <<fam, joinVars, report, notMetadata, mtext>>

NextMetadata ==
    \/ SitrepExtractMetadata
    \/ LandslideExtractMetadata
    \/ ExtractMetadata

SpecMetadata == InitMetadata /\ [][NextMetadata]_vars

(***************************************************************************)
(* The refresh of the situation report: fetch_and_extract_data, one step   *)
(* per download and per extraction, and the handler of the Refresh button  *)
(* that keeps the result in the session and saves it.  A report is the     *)
(* document it was extracted from and the run that extracted it (its       *)
(* metadata holds the time of the extraction).                             *)
(***************************************************************************)
\* most refreshes of a behaviour
MaxRefreshes == 2
\* the last minute of the clock
MaxClock == 1

\* the documents the site can list
Documents == {"doc1", "doc2", "doc3"}

\* what get_sitrep_list(limit=2) can return: at most two documents, the
\* latest first; the empty list also when the request fails
Listings ==
    {<<>>} \cup {<<d>> : d \in Documents}
    \cup {p \in {<<d, e>> : d \in Documents, e \in Documents} : p[1] # p[2]}

\* the tuple (latest_data, previous_data)
Pair(l, p) == [tag |-> "tuple", latest |-> l, previous |-> p]

\* extract_sitrep_data of a document in a run
extracted(doc, run) == [doc |-> doc, run |-> run]

\* the directory of the saved reports, nothing saved
NoFiles ==
    [stamped |-> [t \in 0..MaxClock |-> PyNone], latest |-> PyNone,
     previous |-> PyNone]

\* a flow that lets the failure of the previous report reach the caller
previous_failure_propagates == "error"

\* data_manager lines 130-131: the failure of the previous report is caught
\* and the flow goes on to the return
after_previous_failure == "return"

InitRefresh ==
    /\ fam = "refresh"
    /\ report = Idle /\ catalog = <<>> /\ geojson = Idle
    /\ ValuesIdle /\ WaterIdle /\ SitrepIdle /\ LandslideIdle /\ MetadataIdle
    /\ MergeIdle
    /\ reports = <<>>
    /\ rpc = "ready"
    /\ latest_data = PyNone /\ previous_data = PyNone
    /\ fetched = Idle
    /\ session = [sitrep_data |-> PyNone, previous_sitrep_data |-> PyNone]
    /\ files = NoFiles
    /\ now = 0
    /\ runs = 0
    /\ rlog = <<>>
    /\ shown = "none"
    /\ atPress = Idle

\* the clock reaches the next minute
Tick ==
    /\ fam = "refresh" /\ now < MaxClock
    /\ now' = now + 1
    /\ UNCHANGED <<fam, joinVars, report, notRefresh, reports, rpc, latest_data,
                   previous_data, fetched, session, files, runs, rlog, shown,
                   atPress>>

\* the button pressed, fetch_and_extract_data lines 110-112: the listing,
\* ValueError when it is empty
GetSitrepList ==
    /\ fam = "refresh" /\ rpc = "ready" /\ runs < MaxRefreshes
    /\ runs' = runs + 1
    /\ reports' \in Listings
    /\ rlog' = <<>>
    /\ latest_data' = PyNone /\ previous_data' = PyNone
    /\ shown' = "none"
    /\ atPress' = [session |-> session, files |-> files]
    /\ IF reports' = <<>>
       THEN rpc' = "error" /\ fetched' = PyExc("ValueError")
       ELSE rpc' = "download_latest" /\ fetched' = Idle
    /\ UNCHANGED <<fam, joinVars, report, notRefresh, session, files, now>>

\* line 116: download_pdf of the latest report; its failure propagates
DownloadLatest ==
    /\ fam = "refresh" /\ rpc = "download_latest"
    /\ \E ok \in BOOLEAN :
        /\ rlog' = Append(rlog, [step |-> "download", doc |-> reports[1], ok |-> ok])
        /\ IF ok
           THEN rpc' = "extract_latest" /\ fetched' = fetched
           ELSE rpc' = "error" /\ fetched' = PyExc("HTTPError")
    /\ UNCHANGED <<fam, joinVars, report, notRefresh, reports, latest_data,
                   previous_data, session, files, now, runs, shown,
                   atPress>>

\* lines 117-119: extract_sitrep_data of the latest report; its failure
\* propagates
ExtractLatest ==
    /\ fam = "refresh" /\ rpc = "extract_latest"
    /\ \E ok \in BOOLEAN :
        /\ rlog' = Append(rlog, [step |-> "extract", doc |-> reports[1], ok |-> ok])
        /\ IF ok
           THEN /\ latest_data' = extracted(reports[1], runs)
                /\ rpc' = IF Len(reports) > 1 THEN "download_previous" ELSE "return"
                /\ fetched' = fetched
           ELSE /\ latest_data' = latest_data
                /\ rpc' = "error"
                /\ fetched' = PyExc("ValueError")
    /\ UNCHANGED <<fam, joinVars, report, notRefresh, reports, previous_data,
                   session, files, now, runs, shown,
                   atPress>>

\* line 126: download_pdf of the previous report, inside the try
DownloadPrevious ==
    /\ fam = "refresh" /\ rpc = "download_previous"
    /\ \E ok \in BOOLEAN :
        /\ rlog' = Append(rlog, [step |-> "download", doc |-> reports[2], ok |-> ok])
        /\ IF ok
           THEN rpc' = "extract_previous" /\ fetched' = fetched
           ELSE /\ rpc' = after_previous_failure
                /\ fetched' = IF after_previous_failure = "error"
                              THEN PyExc("HTTPError") ELSE fetched
    /\ UNCHANGED <<fam, joinVars, report, notRefresh, reports, latest_data,
                   previous_data, session, files, now, runs, shown,
                   atPress>>

\* lines 127-131: extract_sitrep_data of the previous report, inside the try
ExtractPrevious ==
    /\ fam = "refresh" /\ rpc = "extract_previous"
    /\ \E ok \in BOOLEAN :
        /\ rlog' = Append(rlog, [step |-> "extract", doc |-> reports[2], ok |-> ok])
        /\ IF ok
           THEN /\ previous_data' = extracted(reports[2], runs)
                /\ rpc' = "return"
                /\ fetched' = fetched
           ELSE /\ previous_data' = previous_data
                /\ rpc' = after_previous_failure
                /\ fetched' = IF after_previous_failure = "error"
                              THEN PyExc("ValueError") ELSE fetched
    /\ UNCHANGED <<fam, joinVars, report, notRefresh, reports, latest_data,
                   session, files, now, runs, shown,
                   atPress>>

\* line 133: return latest_data, previous_data
ReturnData ==
    /\ fam = "refresh" /\ rpc = "return"
    /\ fetched' = Pair(latest_data, previous_data)
    /\ rpc' = "store"
    /\ UNCHANGED <<fam, joinVars, report, notRefresh, reports, latest_data,
                   previous_data, session, files, now, runs, rlog, shown,
                   atPress>>

\* the file name of the report saved at minute t is sitrep_<t>.json; the
\* directory after save_data(data, that name)
save_stamped(fs, t, data) == [fs EXCEPT !.stamped[t] = data]

\* sitrep_tab lines 218-227: the session updated, the report saved under
\* its timestamp and as latest.json, the previous one as previous.json
\* when there is one
StoreRefresh ==
    /\ fam = "refresh" /\ rpc = "store"
    /\ session' = [sitrep_data |-> fetched.latest,
                   previous_sitrep_data |-> fetched.previous]
    /\ \E stamped \in {save_stamped(files, now, fetched.latest)} :
        files' = [stamped EXCEPT
                    !.latest = fetched.latest,
                    !.previous = IF fetched.previous # PyNone
                                 THEN fetched.previous ELSE @]
    /\ shown' = "success"
    /\ rpc' = "ready"
    /\ UNCHANGED <<fam, joinVars, report, notRefresh, reports, latest_data,
                   previous_data, fetched, now, runs, rlog,
                   atPress>>

\* a handler that drops the reports of the session when the refresh fails
ShowErrorAndClear ==
    /\ fam = "refresh" /\ rpc = "error"
    /\ shown' = "error"
    /\ rpc' = "ready"
    /\ session' = [sitrep_data |-> PyNone, previous_sitrep_data |-> PyNone]
    /\ UNCHANGED <<fam, joinVars, report, notRefresh, reports, latest_data,
                   previous_data, fetched, files, now, runs, rlog, atPress>>

\* sitrep_tab lines 228-229: the error of fetch_and_extract_data shown
ShowError ==
    /\ fam = "refresh" /\ rpc = "error"
    /\ shown' = "error"
    /\ rpc' = "ready"
    /\ UNCHANGED <<fam, joinVars, report, notRefresh, reports, latest_data,
                   previous_data, fetched, session, files, now, runs, rlog,
                   atPress>>

NextRefresh ==
    \/ Tick
    \/ GetSitrepList
    \/ DownloadLatest
    \/ ExtractLatest
    \/ DownloadPrevious
    \/ ExtractPrevious
    \/ ReturnData
    \/ StoreRefresh
    \/ ShowError

SpecRefresh == InitRefresh /\ [][NextRefresh]_vars

(***************************************************************************)
(* merge_district_warnings on objects: the records are dicts and their     *)
(* division lists are lists of a heap, held by reference, so that a write  *)
(* through one reference is seen through every other one.  An object is    *)
(* its index in the heap.                                                  *)
(***************************************************************************)
\* most records in the list given to merge_district_warnings
MaxWarnings == 3

\* the records given: two of Badulla with different divisions, one of
\* Badulla with none, one of Kandy
GivenWarnings ==
    {district_warning(<<"B","a","d","u","l","l","a">>, <<<<"E","l","l","a">>>>, <<>>, <<>>),
     district_warning(<<"B","a","d","u","l","l","a">>, <<<<"P","a","s","s","a","r","a">>>>, <<>>, <<<<"E","l","l","a">>>>),
     district_warning(<<"B","a","d","u","l","l","a">>, <<>>, <<>>, <<>>),
     district_warning(<<"K","a","n","d","y">>, <<>>, <<<<"E","l","l","a">>>>, <<>>)}

\* a list object
ListObject(items) == [items |-> items]

\* the heap that holds the records ws: for the record k its three lists
\* and then its dict, whose division fields are the lists
HeapOf(ws) ==
    [n \in 1..(4 * Len(ws)) |->
        LET k == ((n - 1) \div 4) + 1
            j == (n - 1) % 4
        IN  IF j = 0 THEN ListObject(ws[k].level_1_divisions)
            ELSE IF j = 1 THEN ListObject(ws[k].level_2_divisions)
            ELSE IF j = 2 THEN ListObject(ws[k].level_3_divisions)
            ELSE [ws[k] EXCEPT !.level_1_divisions = n - 3,
                               !.level_2_divisions = n - 2,
                               !.level_3_divisions = n - 1]]

\* the dict d of the heap h as a value, its lists read
Deref(h, d) ==
    [h[d] EXCEPT !.level_1_divisions = h[@].items,
                 !.level_2_divisions = h[@].items,
                 !.level_3_divisions = h[@].items]

\* the list of dicts ds of the heap h as a value
DerefAll(h, ds) == [k \in 1..Len(ds) |-> Deref(h, ds[k])]

\* the record kept for a district without a copy: the dict of the caller
dict_alias(h, w) == [heap |-> h, id |-> w]

\* line 347, w.copy(): a new dict with the fields of w, the division lists
\* shared with w
dict_copy(h, w) == [heap |-> Append(h, h[w]), id |-> Len(h) + 1]

\* the index in dm of the dict of a district, 0 when it has none
HeapIndexOf(h, dm, name) ==
    IF \E k \in 1..Len(dm) : h[dm[k]].district = name
    THEN CHOOSE k \in 1..Len(dm) : h[dm[k]].district = name
    ELSE 0

\* lines 322-345: three new lists o1, o2, o3 allocated and the dict
\* existing assigned them, its counts, its total and its max_level
merge_into(h, existing, o1, o2, o3) ==
    [h \o <<ListObject(o1), ListObject(o2), ListObject(o3)>> EXCEPT
        ![existing] =
            [merged_warning(h[existing], o1, o2, o3) EXCEPT
                !.level_1_divisions = Len(h) + 1,
                !.level_2_divisions = Len(h) + 2,
                !.level_3_divisions = Len(h) + 3]]

InitMerge ==
    /\ fam = "merge"
    /\ report = Idle /\ catalog = <<>> /\ geojson = Idle
    /\ ValuesIdle /\ WaterIdle /\ SitrepIdle /\ LandslideIdle /\ MetadataIdle
    /\ RefreshIdle
    /\ given \in UNION {[1..n -> GivenWarnings] : n \in 1..MaxWarnings}
    /\ heap = HeapOf(given)
    /\ arg = [k \in 1..Len(given) |-> 4 * k]
    /\ dmap = <<>>
    /\ argi = 0
    /\ merged = Idle
    /\ hpc = "merge"

AtArgument == fam = "merge" /\ hpc = "merge" /\ argi < Len(arg)

\* line 347: the first record of a district, a copy of it kept
KeepCopy ==
    /\ AtArgument
    /\ HeapIndexOf(heap, dmap, heap[arg[argi + 1]].district) = 0
    /\ \E c \in {dict_copy(heap, arg[argi + 1])} :
        /\ heap' = c.heap
        /\ dmap' = Append(dmap, c.id)
    /\ argi' = argi + 1
    /\ UNCHANGED <<fam, joinVars, report, notMerge, given, arg, merged, hpc>>

\* lines 320-345: a further record of a district, merged into the one kept
MergeIntoKept ==
    /\ AtArgument
    /\ \E j \in {HeapIndexOf(heap, dmap, heap[arg[argi + 1]].district)} :
        /\ j # 0
        /\ \E e \in {Deref(heap, dmap[j])}, w \in {Deref(heap, arg[argi + 1])} :
           \E o1 \in Orders(Range(e.level_1_divisions) \cup Range(w.level_1_divisions)),
              o2 \in Orders(Range(e.level_2_divisions) \cup Range(w.level_2_divisions)),
              o3 \in Orders(Range(e.level_3_divisions) \cup Range(w.level_3_divisions)) :
            heap' = merge_into(heap, dmap[j], o1, o2, o3)
    /\ argi' = argi + 1
    /\ UNCHANGED <<fam, joinVars, report, notMerge, given, arg, dmap, merged, hpc>>

\* line 349: list(district_map.values())
ReturnMerged ==
    /\ fam = "merge" /\ hpc = "merge" /\ argi >= Len(arg)
    /\ merged' = dmap
    /\ hpc' = "returned"
    /\ UNCHANGED <<fam, joinVars, report, notMerge, given, heap, arg, dmap, argi>>

NextMerge ==
    \/ KeepCopy
    \/ MergeIntoKept
    \/ ReturnMerged

SpecMerge == InitMerge /\ [][NextMerge]_vars

(***************************************************************************)
(* The three extract functions together                                    *)
(***************************************************************************)
InitExtract == InitSitrep \/ InitLandslide \/ InitWater

NextExtract == NextSitrep \/ NextLandslide \/ NextWater

SpecExtract == InitExtract /\ [][NextExtract]_vars

(***************************************************************************)
(* Claims about the value normalisers and the name canonicalisers          *)
(***************************************************************************)
\* the tokens that stand for "no data"
CountSentinels ==
    {PyStr(<<"-">>), PyStr(<<>>), PyNone, PyNaN, PyStr(<<"n","a","n">>)}
MeasurementSentinels ==
    {PyStr(<<"-">>), PyStr(<<"N","A">>), PyStr(<<>>), PyNone,
     PyStr(<<"n","a","n">>)}

\* C5: clean_numeric_value returns an integer for every token (it never
\* raises), 1234 for "1,234", and 0 for "-", "", None and "nan".
C5_CleanNumericValue ==
    fn = "clean_numeric_value" =>
        /\ result.tag = "int"
        /\ value = PyStr(<<"1",",","2","3","4">>) => result = PyInt(1234)
        /\ value \in CountSentinels => result = PyInt(0)

C5_Witness ==
    /\ fn = "clean_numeric_value"
    /\ value = PyStr(<<"1",",","2","3","4">>)
    /\ result = PyInt(1234)

\* C6: parse_float returns null for every sentinel token ("-", "NA", "",
\* None, "nan"), and never an error: a token that is not numeric yields null.
C6_ParseFloatSentinelsNull ==
    fn = "parse_float" =>
        /\ ~IsExc(result)
        /\ value \in MeasurementSentinels => result = PyNone

\* C8: both canonicalisers are idempotent: applied to their own result they
\* return it unchanged.
C8_CanonicalizeIdempotent ==
    again # Idle => again = result

C8_Witness ==
    /\ fn = "landslide_normalize_district_name"
    /\ value = PyStr(<<"N","u","w","a","r","a","e","l","i","y","a","\n">>)
    /\ result = PyStr(Nuwara_Eliya)
    /\ again = PyStr(Nuwara_Eliya)


(***************************************************************************)
(* Claims about parse_water_level_table                                    *)
(***************************************************************************)
\* the blocks of the bulletin that lie in the data region, which starts at
\* the first 'Kelani Ganga' line beyond the minimum offset
ExpectedInRegion ==
    SelectSeq(expected, LAMBDA e :
        data_start_idx(lines) # -1 /\ e.at >= data_start_idx(lines))

\* what the parser reported: for each reading its tributary, station and
\* unit, and the line its tributary was read from
Reported ==
    [k \in 1..Len(stations) |->
        [tributary |-> stations[k].tributary, station |-> stations[k].station,
         unit |-> stations[k].unit, at |-> origin[k]]]

\* C1: when the data region is a sequence of well-formed station blocks,
\* with any subset of the optional lines and with basin headers between
\* them, the parser returns one reading per block, in order, each with its
\* block's tributary, station and unit.
C1_OneReadingPerBlock ==
    pc = "done" /\ expected # <<>> => Reported = ExpectedInRegion

\* a block without optional lines followed by a block with remarks and trend
C1_Witness ==
    /\ pc = "done" /\ Len(expected) = 2 /\ Len(stations) = 2
    /\ stations[1].tributary = KelaniGanga
    /\ stations[1].remarks = PyNone /\ stations[1].water_level_trend = PyNone
    /\ stations[1].rainfall_6hr_mm = PyNone
    /\ stations[2].tributary = KaluGanga /\ stations[2].station = Putupaula
    /\ stations[2].remarks = PyStr(<<"A","l","e","r","t">>)
    /\ stations[2].water_level_trend = PyStr(<<"R","i","s","i","n","g">>)

\* the token stream of the scenario
C2_Stream ==
    <<RB01, KelaniGanga, Hanwella, <<"m">>, <<"7",".","5">>, <<"9",".","0">>,
      <<"1","0",".","5">>, <<"8",".","1">>, <<"8",".","3">>,
      <<"N","o","r","m","a","l">>, <<"F","a","l","l","i","n","g">>>>

\* the one reading of the scenario
C2_OneReading ==
    /\ Len(stations) = 1
    /\ stations[1].tributary = KelaniGanga
    /\ stations[1].station = Hanwella
    /\ stations[1].unit = <<"m">>
    /\ stations[1].remarks = PyStr(<<"N","o","r","m","a","l">>)
    /\ stations[1].water_level_trend = PyStr(<<"F","a","l","l","i","n","g">>)
    /\ stations[1].river_basin = RB01

\* C2 as stated: the parser, given the token stream of the scenario and
\* nothing else, returns the one reading.
C2_StreamAlone ==
    pc = "done" /\ lines = C2_Stream => C2_OneReading

\* C2, amended: when the token stream ends the text and its 'Kelani Ganga'
\* line is where the data starts (the first such line beyond line index 10),
\* the parser returns the one reading.
C2_StreamAfterHeader ==
    /\ pc = "done" /\ Len(lines) >= Len(C2_Stream)
    /\ SubSeq(lines, Len(lines) - Len(C2_Stream) + 1, Len(lines)) = C2_Stream
    /\ data_start_idx(lines) = Len(lines) - Len(C2_Stream) + 1
    => C2_OneReading

C2_Witness ==
    /\ pc = "done" /\ Len(lines) = MinOffset + 1 + Len(C2_Stream)
    /\ SubSeq(lines, MinOffset + 2, Len(lines)) = C2_Stream
    /\ data_start_idx(lines) = MinOffset + 2
    /\ C2_OneReading

\* the line at index k, or the empty line when the text ends before it
LineOrNone(k) == IF k < Len(lines) THEN LineAt(lines, k) ELSE <<>>

\* whether the line at index k is a number that can be a rainfall
IsRainfall(k) ==
    /\ k < Len(lines)
    /\ LineAt(lines, k) \notin remarks_vocabulary \cup trend_vocabulary
    /\ LineAt(lines, k) # Dash
    /\ parse_float(PyStr(LineAt(lines, k))) # PyNone

\* C3, for the reading k: a is the line after its five values
C3_Reading(k) ==
    LET r == stations[k]
        a == origin[k] + 8
    IN  /\ r.remarks # PyNone <=> LineOrNone(a) \in remarks_vocabulary
        /\ r.remarks # PyNone => r.remarks = PyStr(LineAt(lines, a))
        /\ r.water_level_trend # PyNone =>
              /\ r.water_level_trend.s \in {<<"R","i","s","i","n","g">>, <<"F","a","l","l","i","n","g">>}
              /\ r.water_level_trend.s \in {LineOrNone(a), LineOrNone(a + 1)}
        /\ LineOrNone(a) \in {<<"R","i","s","i","n","g">>, <<"F","a","l","l","i","n","g">>}
              => r.water_level_trend = PyStr(LineAt(lines, a))
        /\ IsRainfall(a) => r.rainfall_6hr_mm = parse_float(PyStr(LineAt(lines, a)))
        /\ r.rainfall_6hr_mm # PyNone =>
              \E b \in {a, a + 1} :
                  IsRainfall(b) /\ r.rainfall_6hr_mm = parse_float(PyStr(LineAt(lines, b)))
        /\ LineOrNone(a) = Rain /\ LineOrNone(a + 1) \notin trend_vocabulary =>
              /\ r.rainfall_6hr_mm = PyFloat(124, 1)
              /\ r.remarks = PyNone
              /\ r.water_level_trend = PyNone

IsNumericOrNull(v) == v.tag \in {"None", "float", "float_nan", "float_inf"}

\* C4: every reading, whatever the text, has a tributary of the vocabulary,
\* the unit 'm' or 'ft', remarks that are null or one of the four remarks, a
\* trend that is null or Rising/Falling, and numeric or null levels,
\* readings and rainfall.
C4_ReadingTypeInvariant ==
    \A k \in 1..Len(stations) :
        LET r == stations[k]
        IN  /\ r.tributary \in tributary_names
            /\ r.unit \in {<<"m">>, <<"f","t">>}
            /\ r.remarks \in {PyNone} \cup {PyStr(x) : x \in
                  {<<"N","o","r","m","a","l">>, <<"A","l","e","r","t">>,
                   <<"M","i","n","o","r">>, <<"M","a","j","o","r">>}}
            /\ r.water_level_trend \in {PyNone, PyStr(<<"R","i","s","i","n","g">>),
                                        PyStr(<<"F","a","l","l","i","n","g">>)}
            /\ IsNumericOrNull(r.alert_level)
            /\ IsNumericOrNull(r.minor_flood_level)
            /\ IsNumericOrNull(r.major_flood_level)
            /\ IsNumericOrNull(r.water_level_reading_1)
            /\ IsNumericOrNull(r.water_level_reading_2)
            /\ IsNumericOrNull(r.rainfall_6hr_mm)

\* a reading from a damaged bulletin: a stray line among the values
C4_Witness ==
    /\ pc = "done" /\ expected = <<>> /\ Len(stations) >= 1
    /\ \E k \in 1..Len(stations) :
        /\ stations[k].alert_level = PyNone
        /\ LineAt(lines, origin[k] + 3) \in {<<"N","o","r","m","a","l">>, <<"c","m">>}

(***************************************************************************)
(* Claims about parse_sitrep_table                                         *)
(***************************************************************************)
\* the count fields of a district record
NumericFields ==
    {"families_affected", "people_affected", "deaths", "missing",
     "houses_fully_damaged", "houses_partially_damaged", "safety_centers",
     "families_displaced", "people_displaced"}

\* C7: every count field of every record parse_sitrep_table returns is an
\* integer that is not negative, and never null.
C7_CountsNonNegative ==
    \A k \in 1..Len(districts) : \A f \in NumericFields :
        districts[k][f].tag = "int" /\ districts[k][f].v >= 0

(***************************************************************************)
(* Claims about the landslide records                                      *)
(***************************************************************************)
\* a record with its division lists as sets
AsSets(w) ==
    [w EXCEPT !.level_1_divisions = Range(@), !.level_2_divisions = Range(@),
              !.level_3_divisions = Range(@)]

\* what a merge returned, as a set of such records
ResultSet(ws) == {AsSets(ws[k]) : k \in 1..Len(ws)}

\* C9: merging [A, A] gives what merging [A] gives, and merging [B, A] what
\* merging [A, B] gives, for records A and B the table parser returned: the
\* same set of records, the division lists compared as sets, the counts,
\* total_warnings and max_level exactly.
C9_MergeIdempotentCommutative ==
    /\ lpc = "remerged"
    /\ \/ how = "doubled" /\ Len(all_warnings) = 1
       \/ how = "reversed" /\ Len(all_warnings) = 2
    => ResultSet(district_map) = ResultSet(first)

\* the derived fields of a record are what its division lists give
DerivedFieldsHold(w) ==
    /\ w.level_1_count = Len(w.level_1_divisions)
    /\ w.level_2_count = Len(w.level_2_divisions)
    /\ w.level_3_count = Len(w.level_3_divisions)
    /\ w.total_warnings = w.level_1_count + w.level_2_count + w.level_3_count
    /\ w.max_level = IF w.level_3_divisions # <<>> THEN 3
                     ELSE IF w.level_2_divisions # <<>> THEN 2
                     ELSE IF w.level_1_divisions # <<>> THEN 1
                     ELSE 0

\* C10: in every record the table parser returns and in every record of a
\* merge of such records, each level count is the length of the level's
\* division list, total_warnings is the sum of the three counts, and
\* max_level is the highest level whose list is not empty, 0 if none is.
C10_DerivedFields ==
    /\ \A k \in 1..Len(all_warnings) : DerivedFieldsHold(all_warnings[k])
    /\ \A k \in 1..Len(district_map) : DerivedFieldsHold(district_map[k])
    /\ \A k \in 1..Len(first) : DerivedFieldsHold(first[k])

\* two records of one district merged, the second one raising the level
\* from 1 to 3
C10_Witness ==
    /\ lpc = "merged" /\ Len(all_warnings) = 2 /\ Len(first) = 1
    /\ all_warnings[1].max_level = 1
    /\ first[1].level_1_count = 1 /\ first[1].level_3_count = 1
    /\ first[1].total_warnings = 2
    /\ first[1].max_level = 3


(***************************************************************************)
(* Claims about the reports the extract functions return                   *)
(***************************************************************************)
\* the sum of a count field over the first n records
RECURSIVE FieldSum(_, _, _)
FieldSum(rs, f, n) == IF n = 0 THEN 0 ELSE FieldSum(rs, f, n - 1) + rs[n][f].v

\* the sum of an integer field over the first n records
RECURSIVE CountSum(_, _, _)
CountSum(rs, f, n) == IF n = 0 THEN 0 ELSE CountSum(rs, f, n - 1) + rs[n][f]

\* the sizes of the first n basin groups added up
RECURSIVE GroupSum(_, _)
GroupSum(gs, n) == IF n = 0 THEN 0 ELSE GroupSum(gs, n - 1) + Len(gs[n].stations)

\* each total of a situation report and the field it sums
SitrepTotals ==
    {<<"total_families_affected", "families_affected">>,
     <<"total_people_affected", "people_affected">>,
     <<"total_deaths", "deaths">>,
     <<"total_missing", "missing">>,
     <<"total_houses_fully_damaged", "houses_fully_damaged">>,
     <<"total_houses_partially_damaged", "houses_partially_damaged">>,
     <<"total_safety_centers", "safety_centers">>,
     <<"total_families_displaced", "families_displaced">>,
     <<"total_people_displaced", "people_displaced">>}

\* each sum and each count of a landslide report and the field it is about
LandslideTotals ==
    {<<"total_level_1", "districts_level_1", "level_1_count">>,
     <<"total_level_2", "districts_level_2", "level_2_count">>,
     <<"total_level_3", "districts_level_3", "level_3_count">>,
     <<"total_divisions_affected", "districts_with_warnings", "total_warnings">>}

SitrepAggregation ==
    /\ report.districts = districts
    /\ report.totals.districts_affected = Len(report.districts)
    /\ \A p \in SitrepTotals :
        report.totals[p[1]] = FieldSum(report.districts, p[2], Len(report.districts))

LandslideAggregation ==
    /\ report.districts = first
    /\ \A p \in LandslideTotals :
        /\ report.totals[p[1]] = CountSum(report.districts, p[3], Len(report.districts))
        /\ report.totals[p[2]] =
             Cardinality({k \in 1..Len(report.districts) : report.districts[k][p[3]] > 0})

FloodAggregation ==
    /\ report.all_stations = stations
    /\ report.totals.total_stations = Len(report.all_stations)
    /\ report.totals.total_basins =
         Cardinality({report.all_stations[k].river_basin : k \in 1..Len(report.all_stations)})
    /\ report.totals.total_basins = Len(report.river_basins)
    /\ GroupSum(report.river_basins, Len(report.river_basins)) = report.totals.total_stations

\* C11: in the report each extract function returns, every total is the sum
\* of its field over the records of the report, every count is the number
\* of the records it counts (all of them; the ones with a warning; the
\* distinct basins), and the sizes of the basin groups of a water-level
\* report add up to total_stations.
C11_AggregationInvariant ==
    /\ fam = "sitrep" /\ spc = "returned" => SitrepAggregation
    /\ fam = "landslide" /\ report # Idle => LandslideAggregation
    /\ fam = "water" /\ pc = "returned" => FloodAggregation

\* a situation report of two districts returned, 20 people affected in each
C11_Witness ==
    /\ fam = "sitrep" /\ spc = "returned"
    /\ Len(report.districts) = 2
    /\ report.totals.total_people_affected = 40
    /\ report.totals.districts_affected = 2

\* a landslide report in which one of two districts has warnings
LandslideReportReturned ==
    /\ fam = "landslide" /\ report # Idle
    /\ Len(report.districts) = 2
    /\ report.totals.districts_with_warnings = 1

\* a water-level report of two stations in two basins
FloodReportReturned ==
    /\ fam = "water" /\ pc = "returned"
    /\ report.totals.total_stations = 2
    /\ report.totals.total_basins = 2


(***************************************************************************)
(* Claims about the geospatial join                                        *)
(***************************************************************************)
\* the records of the report whose district is the one of a catalog entry
MatchesOf(entry) ==
    {k \in 1..Len(report.districts) :
        entry.district = PyStr(report.districts[k].district)}

\* the properties a catalog entry without a record carries
ZeroFilled(props) ==
    /\ props.max_level = 0 /\ props.total_warnings = 0
    /\ props.level_1_count = 0 /\ props.level_2_count = 0 /\ props.level_3_count = 0
    /\ props.level_1_divisions = <<>> /\ props.level_2_divisions = <<>>
    /\ props.level_3_divisions = <<>>

\* the properties of a catalog entry are the fields of a record
Carries(props, w) ==
    /\ props.max_level = w.max_level /\ props.total_warnings = w.total_warnings
    /\ props.level_1_count = w.level_1_count /\ props.level_2_count = w.level_2_count
    /\ props.level_3_count = w.level_3_count
    /\ props.level_1_divisions = w.level_1_divisions
    /\ props.level_2_divisions = w.level_2_divisions
    /\ props.level_3_divisions = w.level_3_divisions

\* the join of a landslide report: a feature for each catalog entry, in the
\* order of the catalog, with the fields of its district's record or zeros
LandslideJoinComplete ==
    fam = "landslide" /\ geojson # Idle =>
        /\ Len(geojson.features) = Len(catalog)
        /\ \A k \in 1..Len(catalog) :
            /\ geojson.features[k].district = catalog[k].district
            /\ IF MatchesOf(catalog[k]) = {}
               THEN ZeroFilled(geojson.features[k])
               ELSE \E j \in MatchesOf(catalog[k]) :
                        Carries(geojson.features[k], report.districts[j])

\* a catalog of three districts joined with a report that has a record for
\* one of them
LandslideJoined ==
    /\ fam = "landslide" /\ geojson # Idle
    /\ Len(catalog) = 3 /\ Len(report.districts) = 1
    /\ geojson.features[2].max_level = 2
    /\ ZeroFilled(geojson.features[1])

\* C12: the output of convert_to_geojson has exactly one feature for each
\* entry of the boundary catalog, whatever the report holds; for the
\* landslide report the feature carries the fields of its district's record
\* or the zero-filled default.
C12_JoinCompleteness ==
    /\ geojson # Idle => Len(geojson.features) = Len(catalog)
    /\ LandslideJoinComplete


(***************************************************************************)
(* Claims about the metadata extractors                                    *)
(***************************************************************************)
\* exactly one of report_date and report_date_raw is in the metadata
OneDateField(md) == (md.report_date # Absent) # (md.report_date_raw # Absent)

\* the extractors of the two table families return exactly one of the fields
TableFamiliesOneDateField ==
    mfn \in {"sitrep", "landslide"} => OneDateField(metadata)

\* C13: whatever the text holds, the metadata each of the three extractors
\* returns has exactly one of report_date and report_date_raw, and the
\* extractor does not raise.
C13_ExactlyOneDateField ==
    mfn # "none" /\ mfn # "idle" =>
        /\ metadata # PyExc("ValueError")
        /\ OneDateField(metadata)


(***************************************************************************)
(* Claims about extract_sitrep_data                                        *)
(***************************************************************************)
\* the decoding step gave no table, or one with fewer than four columns
NoUsableTable == df = PyNone \/ df.ncols < 4

\* extract_sitrep_data has returned or raised
SitrepExtractionOver == fam = "sitrep" /\ spc \in {"returned", "raised"}

\* a table of four columns or more never makes the extraction raise
UsableTableNeverRaises ==
    SitrepExtractionOver /\ ~NoUsableTable => spc = "returned" /\ report # PyExc("ValueError")

\* C14: extract_sitrep_data raises the missing-table error exactly when it
\* was given no table or a table with fewer than four columns; with four
\* columns or more it returns a report whatever the rows hold.
C14_MissingTableOnlyFatal ==
    SitrepExtractionOver =>
        (spc = "raised" /\ report = PyExc("ValueError")) <=> NoUsableTable

(***************************************************************************)
(* C15: the two-document flow.                                             *)
(***************************************************************************)
\* a step of this run on the document at position n of the listing that
\* failed
FailedOn(n) ==
    /\ Len(reports) >= n
    /\ \E k \in 1..Len(rlog) : rlog[k].doc = reports[n] /\ ~rlog[k].ok

\* every step on the previous report comes after the successful extraction
\* of the latest one
LatestFirst ==
    \A k \in 1..Len(rlog) :
        (Len(reports) > 1 /\ rlog[k].doc = reports[2])
            => \E j \in 1..(k - 1) :
                rlog[j] = [step |-> "extract", doc |-> reports[1], ok |-> TRUE]

\* fetch_and_extract_data raised
Raised == fetched \in {PyExc("ValueError"), PyExc("HTTPError")}

\* C15: in fetch_and_extract_data the latest report is processed before the
\* previous one; a failure downloading or extracting the previous report is
\* caught and the result is (latest_data, None); an empty listing or a
\* failure downloading or extracting the latest report reaches the caller as
\* an error and nothing is returned.
C15_TwoDocumentFlow ==
    fam = "refresh" =>
        /\ LatestFirst
        /\ FailedOn(2) =>
            \/ fetched = Idle /\ rpc = "return"
            \/ fetched = Pair(extracted(reports[1], runs), PyNone)
        /\ (runs > 0 /\ (reports = <<>> \/ FailedOn(1))) => Raised

\* the previous report failed and the latest one alone was returned
C15_Witness ==
    /\ fam = "refresh" /\ FailedOn(2)
    /\ fetched = Pair(extracted(reports[1], runs), PyNone)

\* the latest report failed and the caller got the error
LatestFailureRaised == fam = "refresh" /\ FailedOn(1) /\ Raised

\* the listing was empty and the caller got the error
EmptyListingRaised ==
    fam = "refresh" /\ runs > 0 /\ reports = <<>> /\ fetched = PyExc("ValueError")

(***************************************************************************)
(* C16: the reports saved under their timestamp.                           *)
(***************************************************************************)
\* C16: a report saved under the key of its extraction timestamp is never
\* overwritten or changed by a later refresh.
C16_WriteOncePersistence ==
    [][\A t \in 0..MaxClock :
        (fam = "refresh" /\ files.stamped[t] # PyNone)
            => files'.stamped[t] = files.stamped[t]]_vars

\* the aliases latest.json and previous.json are rewritten by a refresh
\* that returned two reports
AliasesRewritten ==
    fam = "refresh" /\ runs = 2 /\ shown = "success"
    /\ fetched.previous # PyNone
    /\ files.latest = fetched.latest /\ files.previous = fetched.previous

(***************************************************************************)
(* C17: the columns of the situation report, by position.                  *)
(***************************************************************************)
\* the count fields of a record, in the order of the columns 2 to 10
CountFields ==
    <<"families_affected", "people_affected", "deaths", "missing",
      "houses_fully_damaged", "houses_partially_damaged", "safety_centers",
      "families_displaced", "people_displaced">>

\* the row the parser has just taken, appended as a record
RowAccepted ==
    /\ fam = "sitrep" /\ df # PyNone /\ idx > 2 /\ districts # <<>>
    /\ \E name \in {normalize_district_name(Cell(df.rows[idx], 1, PyNone)).s} :
        name # <<>> /\ Lower(name) \notin sitrep_skip_names

\* the record of Colombo
ColomboRecord ==
    [district |-> <<"C","o","l","o","m","b","o">>,
     families_affected |-> PyInt(1200), people_affected |-> PyInt(5000),
     deaths |-> PyInt(2), missing |-> PyInt(0),
     houses_fully_damaged |-> PyInt(10), houses_partially_damaged |-> PyInt(25),
     safety_centers |-> PyInt(4), families_displaced |-> PyInt(300),
     people_displaced |-> PyInt(900)]

\* C17: every accepted row of an eleven-column table is mapped by position:
\* column 1 is the district and the columns 2 to 10 are the nine counts in
\* the order of CountFields; the row of Colombo gives the record of Colombo.
C17_PositionalColumns ==
    (RowAccepted /\ spc = "rows" /\ df.ncols >= 11) =>
        \E row \in {df.rows[idx]}, d \in {districts[Len(districts)]} :
            /\ d.district = normalize_district_name(row[2]).s
            /\ \A k \in 1..9 : d[CountFields[k]] = clean_numeric_value(row[k + 2])
            /\ row = ColomboRow =>
                /\ d.district = ColomboRecord.district
                /\ \A k \in 1..9 : d[CountFields[k]] = ColomboRecord[CountFields[k]]

\* the row of Colombo was taken and its record appended
C17_Witness ==
    /\ RowAccepted /\ spc = "rows"
    /\ df.rows[idx] = ColomboRow
    /\ districts[Len(districts)].people_displaced = PyInt(900)

(***************************************************************************)
(* C18: the division names of a cell.                                      *)
(***************************************************************************)
\* parse_divisions gave the names of the cell c, in order
NamesOf(c) == value = PyStr(CellText(c)) => result = PyList(c.names)

\* C18: for a cell of division names separated by commas or by "and", with
\* one of the artifacts "Divisional Secretariat", "(DSD)" or "and surrounding
\* areas" attached, parse_divisions gives exactly the names in order.
C18_DivisionNames ==
    (fam = "values" /\ fn = "parse_divisions") =>
        \A c \in DivisionCellSpecs : NamesOf(c)

\* the same for the cells that do not hold "(DSD)"
DivisionNamesButDSD ==
    (fam = "values" /\ fn = "parse_divisions") =>
        \A c \in DivisionCellSpecs :
            c.artifact # <<"(","D","S","D",")">> => NamesOf(c)

\* the cell of the scenario gave its three names
ScenarioCellParsed ==
    /\ fam = "values" /\ fn = "parse_divisions"
    /\ value = PyStr(<<"E","l","l","a",","," ","B","a","d","u","l","l","a"," ","a","n","d"," ","H","a","l","i","-","E","l","a"," ","D","i","v","i","s","i","o","n","a","l"," ","S","e","c","r","e","t","a","r","i","a","t">>)
    /\ result = PyList(<<<<"E","l","l","a">>, <<"B","a","d","u","l","l","a">>, <<"H","a","l","i","-","E","l","a">>>>)

(***************************************************************************)
(* C19: the footer of the bulletin.                                        *)
(***************************************************************************)
\* the indices of the footer lines of the data region
FooterLines ==
    IF fam # "water" \/ lines = <<>> \/ data_start_idx(lines) = -1 THEN {}
    ELSE {k \in data_start_idx(lines)..(Len(lines) - 1) : IsFooter(LineAt(lines, k))}

\* the last line a reading takes a mandatory field from: the tributary, the
\* station, the unit and the five values
LastMandatoryLine(n) == origin[n] + 7

\* C19: once a footer line occurs in the data region, no reading is built
\* from that line or from a later one, wherever in the station cycle the
\* footer line falls.
C19_FooterTermination ==
    \A f \in FooterLines, n \in 1..Len(stations) : LastMandatoryLine(n) < f

\* the loop met a footer line at its cursor and stopped, readings before it
FooterAtCursorStops ==
    /\ fam = "water" /\ pc = "done" /\ stations # <<>>
    /\ i < Len(lines) /\ IsFooter(LineAt(lines, i))
    /\ \A f \in FooterLines, n \in 1..Len(stations) : LastMandatoryLine(n) < f

\* a footer line was taken as the station name of a reading
FooterAsStation ==
    /\ fam = "water" /\ stations # <<>>
    /\ IsFooter(stations[Len(stations)].station)

(***************************************************************************)
(* C20: the unit guard.                                                    *)
(***************************************************************************)
\* the cursor is on a tributary line and the line two positions after it is
\* no unit
UnitGuardFails ==
    AtTributary /\ i + 2 < Len(lines) /\ LineAt(lines, i + 2) \notin units

\* C20: when the line two positions after a tributary line is not 'm' or
\* 'ft', no reading is emitted for the attempt and scanning resumes at the
\* line immediately following the tributary line.
C20_UnitGuard ==
    [][UnitGuardFails => (stations' = stations /\ i' = i + 1)]_vars

\* no reading is emitted for the attempt
UnitGuardEmitsNothing == [][UnitGuardFails => stations' = stations]_vars

\* a station block stands at line t: tributary, station, unit and five
\* lines, none of them a footer
BlockAt(t) ==
    /\ t + 7 < Len(lines)
    /\ LineAt(lines, t) \in tributary_names
    /\ LineAt(lines, t + 2) \in units
    /\ \A k \in t..(t + 7) : ~IsFooter(LineAt(lines, k))

\* the parser is through, and the genuine block that began on the line
\* after a false tributary line gave no reading
GenuineBlockLost ==
    /\ fam = "water" /\ pc = "done"
    /\ \E t \in 0..(Len(lines) - 1) :
        /\ data_start_idx(lines) # -1 /\ t >= data_start_idx(lines)
        /\ \A k \in data_start_idx(lines)..t : ~IsFooter(LineAt(lines, k))
        /\ LineAt(lines, t) \in tributary_names
        /\ BlockAt(t + 1)
        /\ LineAt(lines, t + 2) \notin tributary_names
        /\ \A n \in 1..Len(stations) :
            /\ origin[n] # t + 1
            /\ origin[n] + 7 < t \/ origin[n] > t + 1

(***************************************************************************)
(* C21: the optional fields in any order.                                  *)
(***************************************************************************)
\* what the line at index k is among the optional tokens
OptionalKind(k) ==
    IF k >= Len(lines) THEN "none"
    ELSE IF LineAt(lines, k) \in remarks_vocabulary THEN "remarks"
    ELSE IF LineAt(lines, k) \in trend_vocabulary THEN "trend"
    ELSE IF IsRainfall(k) THEN "rainfall"
    ELSE "none"

\* the lines a to p are optional tokens of different kinds
OptionalRun(a, p) ==
    /\ \A q \in a..p : OptionalKind(q) # "none"
    /\ \A q, r \in a..p : q # r => OptionalKind(q) # OptionalKind(r)

\* the reading r records the optional token at line p
Recorded(r, p) ==
    CASE OptionalKind(p) = "remarks" -> r.remarks = PyStr(LineAt(lines, p))
      [] OptionalKind(p) = "trend" -> r.water_level_trend = PyStr(LineAt(lines, p))
      [] OptionalKind(p) = "rainfall" ->
            r.rainfall_6hr_mm = parse_float(PyStr(LineAt(lines, p)))
      [] OTHER -> TRUE

\* C21: whatever subset of the remarks, the trend and a numeric rainfall
\* follows the five values of a station, in whatever order, the reading
\* records each of them.
C21_OptionalFieldsAnyOrder ==
    fam = "water" =>
        \A n \in 1..Len(stations) :
            \A p \in (origin[n] + 8)..(origin[n] + 10) :
                OptionalRun(origin[n] + 8, p) => Recorded(stations[n], p)

\* the first optional token is recorded, and so is a trend or a rainfall
\* that follows the remarks
RemarksThenTrendRecorded ==
    fam = "water" =>
        \A n \in 1..Len(stations) :
            LET a == origin[n] + 8
            IN  /\ OptionalKind(a) # "none" => Recorded(stations[n], a)
                /\ (OptionalKind(a) = "remarks"
                        /\ OptionalKind(a + 1) \in {"trend", "rainfall"})
                       => Recorded(stations[n], a + 1)

\* the trend came before the remarks and the remarks were lost
TrendBeforeRemarksLost ==
    /\ fam = "water" /\ stations # <<>>
    /\ OptionalKind(origin[1] + 8) = "trend"
    /\ OptionalKind(origin[1] + 9) = "remarks"
    /\ stations[1].water_level_trend # PyNone
    /\ stations[1].remarks = PyNone

(***************************************************************************)
(* C22: the basin of a reading.                                            *)
(***************************************************************************)
\* the indices from lo up to, not including, t whose line is a basin header
HeadersBefore(lo, t) ==
    {k \in lo..(t - 1) : basin_match(LineAt(lines, k)) # <<>>}

\* the basin of the last header among hs
LastBasin(hs) ==
    basin_match(LineAt(lines, CHOOSE k \in hs : \A j \in hs : j <= k))

\* C22: the river_basin of every reading is the basin of the most recent
\* line '<name> (RB <NN>)' that precedes the tributary line of the reading
\* in the input.
C22_BasinAttribution ==
    fam = "water" =>
        \A n \in 1..Len(stations) :
            HeadersBefore(0, origin[n]) # {}
                => stations[n].river_basin = LastBasin(HeadersBefore(0, origin[n]))

\* the river_basin of a reading is the default basin or the basin of a
\* header of the data region that precedes its tributary line
BasinFromAnEarlierHeader ==
    fam = "water" =>
        \A n \in 1..Len(stations) :
            \/ stations[n].river_basin = default_basin
            \/ \E k \in HeadersBefore(data_start_idx(lines), origin[n]) :
                stations[n].river_basin = basin_match(LineAt(lines, k))

\* a basin header stood between two blocks and the second reading has it
BasinHeaderBetweenBlocks ==
    /\ fam = "water" /\ Len(stations) = 2
    /\ HeadersBefore(origin[1] + 8, origin[2]) # {}
    /\ stations[2].river_basin = LastBasin(HeadersBefore(origin[1] + 8, origin[2]))
    /\ stations[2].river_basin # stations[1].river_basin

(***************************************************************************)
(* C23: the rows parse_sitrep_table skips.                                 *)
(***************************************************************************)
\* the text of the district cell of a row, stripped; empty for no cell
DistrictText(r) ==
    IF IsNa(Cell(r, 1, PyNone)) THEN <<>> ELSE Strip(Str(Cell(r, 1, PyNone)))

\* the district cell is empty or one of the sentinels
EmptyOrSentinel(r) ==
    \/ DistrictText(r) = <<>>
    \/ Lower(DistrictText(r)) \in
        {<<"n","o","n","e">>, <<"t","o","t","a","l">>, <<"d","i","s","t","r","i","c","t","s">>}

\* the rows taken so far, the two header rows left out
RowsTaken == 3..idx

KeptUnlessNumeric(r) == ~EmptyOrSentinel(r) /\ ~IsDigit(DistrictText(r))
KeptUnlessSentinel(r) == ~EmptyOrSentinel(r)

\* C23: the first two rows are skipped, and so is every later row whose
\* district cell is empty, purely numeric or one of none/total/districts;
\* every other row gives exactly one record.
C23_RowSkipping ==
    (fam = "sitrep" /\ df # PyNone) => Len(districts)
        = Cardinality({k \in RowsTaken : KeptUnlessNumeric(df.rows[k])})

\* the same without the numeric cells: they are not skipped
RowSkippingButNumeric ==
    (fam = "sitrep" /\ df # PyNone) => Len(districts)
        = Cardinality({k \in RowsTaken : KeptUnlessSentinel(df.rows[k])})

\* a row whose district cell is a number gave a record
NumericDistrictRecorded ==
    /\ fam = "sitrep" /\ districts # <<>>
    /\ districts[Len(districts)].district = <<"1","2">>

(***************************************************************************)
(* C24: the columns of a landslide table.                                  *)
(***************************************************************************)
\* a header of the table d holds the word district
HasDistrictHeader(d) ==
    \E k \in 1..Len(d.columns) :
        Contains(Lower(d.columns[k]), <<"d","i","s","t","r","i","c","t">>)

\* the columns as the claim gives them for the table d, 0-based: by the
\* headers, else the columns 2 and 3 to 5 of a table whose first column
\* holds ordinals, else the columns 1 and 2 to 4
ColumnsAsStated(d, lay) ==
    IF HasDistrictHeader(d)
    THEN /\ lay.by = "header"
         /\ Contains(Lower(d.columns[lay.district_col + 1]), <<"d","i","s","t","r","i","c","t">>)
    ELSE IF has_numbers(d)
    THEN lay.district_col = 1 /\ lay.level_1 = 2 /\ lay.level_2 = 3 /\ lay.level_3 = 4
    ELSE lay.district_col = 0 /\ lay.level_1 = 1 /\ lay.level_2 = 2 /\ lay.level_3 = 3

\* C24: the headers are tried first; only when no header holds 'district'
\* are the columns taken by position: district in column 2 and levels in
\* columns 3 to 5 when the first column holds ordinals, district in column 1
\* and levels in columns 2 to 4 otherwise.
C24_ColumnDetectionOrder ==
    (fam = "landslide" /\ lpc = "rows") => ColumnsAsStated(tables[tbl], layout)

\* the same for the tables of five columns or more
ColumnDetectionOfWideTables ==
    (fam = "landslide" /\ lpc = "rows" /\ Len(tables[tbl].columns) >= 5)
        => ColumnsAsStated(tables[tbl], layout)

\* a table of four unnamed columns whose first column holds ordinals: the
\* district was taken from the first column
OrdinalColumnTakenAsDistrict ==
    /\ fam = "landslide" /\ lpc = "rows"
    /\ Len(tables[tbl].columns) = 4 /\ ~HasDistrictHeader(tables[tbl])
    /\ has_numbers(tables[tbl]) /\ tables[tbl].rows[1][1] = PyStr(<<"1">>)
    /\ layout.district_col = 0

\* a table of three unnamed columns: no column was taken for the district
\* and the table gave no warnings
NarrowTableIgnored ==
    /\ fam = "landslide" /\ lpc = "table" /\ tbl = 2 /\ Len(tables) = 1
    /\ Len(tables[1].columns) = 3 /\ ~HasDistrictHeader(tables[1])
    /\ layout = NoLayout /\ all_warnings = <<>>

(***************************************************************************)
(* C25: two rows of one district in a situation report.                    *)
(***************************************************************************)
\* the rows taken so far that gave the record of the district name
RowsOfDistrict(name) ==
    {k \in 3..idx : KeptUnlessSentinel(df.rows[k]) /\ district_name(df.rows[k]) = name}

\* C25: when the table holds more than one row of a district, the records
\* hold one record of that district, with the values of the last of its
\* rows, so that the totals count the district once.
C25_DuplicateDistricts ==
    (fam = "sitrep" /\ df # PyNone) =>
        \A j \in 1..Len(districts) :
            /\ \A k \in 1..Len(districts) :
                districts[j].district = districts[k].district => j = k
            /\ \E last \in RowsOfDistrict(districts[j].district) :
                /\ \A r \in RowsOfDistrict(districts[j].district) : r <= last
                /\ districts[j] = district_data(df.rows[last])

\* every row of a district gave a record of its own, in the order of the
\* rows
OneRecordPerRow ==
    (fam = "sitrep" /\ df # PyNone) =>
        \A name \in {districts[j].district : j \in 1..Len(districts)} :
            Cardinality({j \in 1..Len(districts) : districts[j].district = name})
                = Cardinality(RowsOfDistrict(name))

\* Colombo stood in two rows and the report counts it twice
DistrictCountedTwice ==
    /\ fam = "sitrep" /\ spc = "returned" /\ Len(districts) = 2
    /\ districts[1].district = districts[2].district
    /\ districts[1].families_affected = PyInt(10)
    /\ districts[2].families_affected = PyInt(1200)
    /\ report.totals.districts_affected = 2
    /\ report.totals.total_families_affected = 1210

(***************************************************************************)
(* C26: the canonical keys of the two report families.                     *)
(***************************************************************************)
\* the alias table as stated: three aliases, the identity otherwise
CanonicalName(name) ==
    IF name = <<"R","a","t","h","n","a","p","u","r","a">>
    THEN <<"R","a","t","n","a","p","u","r","a">>
    ELSE IF name \in {<<"N","u","w","a","r","a","E","l","i","y","a">>,
                      <<"N","u","w","a","r","a","e","l","i","y","a">>}
    THEN <<"N","u","w","a","r","a"," ","E","l","i","y","a">>
    ELSE name

\* the canonicaliser fn gave the canonical name of the text it was given
GaveCanonicalName == result = PyStr(CanonicalName(Strip(value.s)))

\* C26: the canonicaliser of the situation reports and the one of the
\* landslide reports both map a district value through the alias table, so
\* one spelling gives one key in both families.
C26_CanonicalKeys ==
    (/\ fam = "values" /\ value.tag = "str"
     /\ fn \in {"normalize_district_name", "landslide_normalize_district_name"})
        => GaveCanonicalName

\* the same for the canonicaliser of the landslide reports alone
LandslideKeysCanonical ==
    (fam = "values" /\ value.tag = "str" /\ fn = "landslide_normalize_district_name")
        => GaveCanonicalName

\* the two canonicalisers agree on every spelling but the two of Nuwara
\* Eliya
CanonicalisersAgreeButNuwaraEliya ==
    (/\ fam = "values" /\ value.tag = "str" /\ fn = "normalize_district_name"
     /\ CanonicalName(Strip(value.s)) # <<"N","u","w","a","r","a"," ","E","l","i","y","a">>)
        => result = landslide_normalize_district_name(value)

\* the situation-report canonicaliser left NuwaraEliya as it was
NuwaraEliyaKeptBySitrep ==
    /\ fam = "values" /\ fn = "normalize_district_name"
    /\ value = PyStr(<<"N","u","w","a","r","a","E","l","i","y","a">>)
    /\ result = value
    /\ landslide_normalize_district_name(value) # result

(***************************************************************************)
(* C27: merge_district_warnings and the records it is given.               *)
(***************************************************************************)
\* the dicts of the list returned are none of the dicts of the caller
NewCollection == \A k \in 1..Len(merged) : \A j \in 1..Len(arg) : merged[k] # arg[j]

\* C27: at every step of merge_district_warnings and after it, every record
\* of the list given, its division lists, counts, total_warnings and
\* max_level included, is what it was at the call; the list returned holds
\* new records.
C27_MergeLeavesInputUnchanged ==
    fam = "merge" =>
        /\ DerefAll(heap, arg) = given
        /\ hpc = "returned" => NewCollection

\* a list with the same district twice was merged: the record returned has
\* the divisions of both and the records given are as they were
C27_Witness ==
    /\ fam = "merge" /\ hpc = "returned"
    /\ Len(arg) = 2 /\ Len(merged) = 1
    /\ given[1].level_1_divisions = <<<<"E","l","l","a">>>>
    /\ given[2].level_1_divisions = <<<<"P","a","s","s","a","r","a">>>>
    /\ Deref(heap, merged[1]).level_1_count = 2
    /\ Deref(heap, merged[1]).max_level = 3
    /\ DerefAll(heap, arg) = given

\* a record returned without a merge holds the very lists of the record
\* given
ListsShared ==
    /\ fam = "merge" /\ hpc = "returned" /\ Len(merged) = 1 /\ Len(arg) = 1
    /\ heap[merged[1]].level_1_divisions = heap[arg[1]].level_1_divisions

(***************************************************************************)
(* C28: the aliases after a refresh.                                       *)
(***************************************************************************)
\* the handler has stored the result of a refresh that succeeded
RefreshStored == fam = "refresh" /\ rpc = "ready" /\ shown = "success"

\* C28: after every successful refresh the saved 'latest' is the latest
\* report of that refresh and the saved 'previous' is its previous report,
\* absent when that refresh got none; 'previous' never holds the report of
\* an earlier refresh.
C28_PointerReassignment ==
    RefreshStored =>
        /\ files.latest = fetched.latest
        /\ files.previous = fetched.previous

\* the saved 'latest' is the latest report of the refresh
LatestAliasReassigned == RefreshStored => files.latest = fetched.latest

\* the saved 'previous' is the previous report of the refresh when the
\* refresh got one
PreviousAliasWhenPresent ==
    (RefreshStored /\ fetched.previous # PyNone) => files.previous = fetched.previous

\* the second refresh got no previous report and 'previous' still holds the
\* one of the first refresh
StalePrevious ==
    /\ RefreshStored /\ runs = 2
    /\ fetched.previous = PyNone
    /\ session.previous_sitrep_data = PyNone
    /\ files.previous # PyNone /\ files.previous.run = 1
    /\ files.latest.run = 2

(***************************************************************************)
(* C30: a refresh that failed.                                             *)
(***************************************************************************)
\* C30: when fetch_and_extract_data raises during a refresh, the reports of
\* the session and every saved file are what they were when the refresh
\* began, and the handler only shows the error.
C30_FailedRefreshLeavesState ==
    (fam = "refresh" /\ Raised) =>
        /\ session = atPress.session
        /\ files = atPress.files
        /\ rpc = "ready" => shown = "error"

\* the second refresh failed on the latest report: the session and the
\* files hold the reports of the first refresh
C30_Witness ==
    /\ fam = "refresh" /\ Raised /\ runs = 2 /\ FailedOn(1)
    /\ rpc = "ready" /\ shown = "error"
    /\ session.sitrep_data # PyNone /\ session.sitrep_data.run = 1
    /\ files.latest = session.sitrep_data
    /\ session = atPress.session /\ files = atPress.files

(***************************************************************************)
(* C29: progress and termination of parse_water_level_table.               *)
(***************************************************************************)
\* C29: in parse_water_level_table the cursor never decreases, it strictly
\* increases on every iteration of the loop that does not stop the scan, the
\* loop runs at most one iteration per line, and no line is read at an index
\* outside the lines.
C29_ScanProgress ==
    [][fam = "water" =>
        /\ i' >= i
        /\ (pc = "loop" /\ pc' = "loop") => i' > i
        /\ scan'.iterations <= Len(lines')
        /\ scan'.highest < Len(lines')
        /\ i' <= Len(lines')]_vars

\* a scan that met a basin header, a line that is no tributary, a rejected
\* unit and a complete station, and read the lines up to the last one
C29_Witness ==
    /\ fam = "water" /\ pc = "done"
    /\ {"basin", "skip", "reject", "station"} \subseteq scan.steps
    /\ "break" \notin scan.steps /\ "footer" \notin scan.steps
    /\ scan.highest = Len(lines) - 1
    /\ i = Len(lines)
    /\ scan.iterations >= 4

\* a scan stopped by a break in the middle of a block: the cursor is past the
\* last line read and inside the lines
ScanStoppedInBlock ==
    /\ fam = "water" /\ pc = "done"
    /\ "break" \in scan.steps
    /\ i = Len(lines) /\ scan.highest = Len(lines) - 1

=============================================================================
